---- MODULE Spec2Model ----
(***************************************************************************)
(* A model of the convoker command-line parser and dispatcher              *)
(* (src/src/command.ts, second Command class, and src/src/input.ts).       *)
(*                                                                         *)
(* A JavaScript string is a sequence of one-character strings, so that     *)
(* startsWith, slice and split are computed and not assumed.  A command    *)
(* object is named by an identifier ("root", "build", ...); the tree is    *)
(* a function from identifiers to the fields of the Command class.         *)
(* One call run(argv) is modelled: it awaits parse(argv) and dispatches.   *)
(***************************************************************************)
EXTENDS Integers, Sequences, FiniteSets, TLC

\* Longest argument vector drawn by Init.
MaxArgv == 3
\* Most calls of add, subCommand and alias made to build a tree.
MaxBuild == 2
\* Most calls of parse(argv) made in a row on one tree.
MaxCalls == 2
\* Longest raw list handed to convert with a validator kind.
MaxList == 3

\* The JavaScript value undefined where a string is expected.  It is a
\* sequence holding a two-letter word, so it equals no string of the model.
Undef == <<"undefined">>

\* ------------------------------------------------------------------------
\* Strings
\* ------------------------------------------------------------------------

\* String.prototype.startsWith
StartsWith(s, p) == Len(s) >= Len(p) /\ SubSeq(s, 1, Len(p)) = p

\* String.prototype.slice(n), n >= 0 (0-based start)
Slice(s, n) == SubSeq(s, n + 1, Len(s))

RECURSIVE SplitRec(_, _, _)
SplitRec(rest, sep, cur) ==
  IF rest = <<>> THEN <<cur>>
  ELSE IF StartsWith(rest, sep)
       THEN <<cur>> \o SplitRec(Slice(rest, Len(sep)), sep, <<>>)
       ELSE SplitRec(Tail(rest), sep, Append(cur, Head(rest)))

\* String.prototype.split(sep): every piece between occurrences of sep; an
\* empty separator gives the characters.
Split(s, sep) ==
  IF sep = <<>> THEN [k \in 1..Len(s) |-> <<s[k]>>]
  ELSE SplitRec(s, sep, <<>>)

\* const [key, value] = text.split("="): the first two pieces of the split;
\* value is undefined when there is no "=".
SplitKeyValue(text) ==
  LET parts == Split(text, <<"=">>)
  IN [key |-> parts[1], value |-> IF Len(parts) >= 2 THEN parts[2] ELSE Undef]

\* name.replace(/^-+/, "")
RECURSIVE StripDashes(_)
StripDashes(name) ==
  IF name # <<>> /\ Head(name) = "-" THEN StripDashes(Tail(name)) ELSE name

Digits == <<"0", "1", "2", "3", "4", "5", "6", "7", "8", "9">>
IsDigit(c) == \E d \in 1..10 : Digits[d] = c
DigitVal(c) == (CHOOSE d \in 1..10 : Digits[d] = c) - 1

\* The longest run of digits at the front of s.
RECURSIVE DigitPrefix(_)
DigitPrefix(s) ==
  IF s # <<>> /\ IsDigit(Head(s)) THEN <<Head(s)>> \o DigitPrefix(Tail(s)) ELSE <<>>

RECURSIVE DigitsToNat(_, _)
DigitsToNat(ds, acc) ==
  IF ds = <<>> THEN acc ELSE DigitsToNat(Tail(ds), acc * 10 + DigitVal(Head(ds)))

\* ------------------------------------------------------------------------
\* Values of the bound input (src/src/input.ts).  Every value is a record
\* [t, v]; the payload of "num" and "big" is an integer, of "str" a string,
\* of "bool" a Boolean, of "list" a sequence of values.
\* ------------------------------------------------------------------------
NaN == [t |-> "NaN", v |-> 0]
Num(n) == [t |-> "num", v |-> n]
Big(n) == [t |-> "big", v |-> n]
Str(s) == [t |-> "str", v |-> s]
Bool(b) == [t |-> "bool", v |-> b]
List(vs) == [t |-> "list", v |-> vs]
\* A thrown SyntaxError of BigInt(), as the outcome of one conversion.
Thrown(e) == [t |-> "throw", v |-> e]
NoDefault == [t |-> "undefined", v |-> 0]

Signed(s) == s # <<>> /\ Head(s) \in {"-", "+"}
Unsigned(s) == IF Signed(s) THEN Tail(s) ELSE s
Sign(s) == IF s # <<>> /\ Head(s) = "-" THEN -1 ELSE 1

\* parseFloat(val) on the strings of the model's alphabet (no white space,
\* no ".", no exponent, no "Infinity"): an optional sign and the longest run
\* of digits; NaN when there is no digit.
ParseFloat(val) ==
  LET ds == DigitPrefix(Unsigned(val))
  IN IF ds = <<>> THEN NaN ELSE Num(Sign(val) * DigitsToNat(ds, 0))

\* BigInt(val) on the same alphabet (no radix prefix): the empty string is
\* 0n, a signed run of digits is its value, anything else throws.
BigIntOf(val) ==
  LET body == Unsigned(val)
  IN IF val = <<>> THEN Big(0)
     ELSE IF body # <<>> /\ DigitPrefix(body) = body
          THEN Big(Sign(val) * DigitsToNat(body, 0))
          ELSE Thrown("SyntaxError")

\* convertOne: one raw string to a value of the kind.
convertOne(kind, val) ==
  CASE kind = "boolean" -> Bool(val = <<"t", "r", "u", "e">>)
    [] kind = "bigint" -> BigIntOf(val)
    [] kind = "number" -> ParseFloat(val)
    [] OTHER -> Str(val)

\* The first element of a list whose conversion throws; 0 when none does.
FirstThrown(vs) ==
  IF \E k \in 1..Len(vs) : vs[k].t = "throw"
  THEN CHOOSE k \in 1..Len(vs) : vs[k].t = "throw" /\ \A j \in 1..(k - 1) : vs[j].t # "throw"
  ELSE 0

\* convert(kind, value): a list (isList) is converted piece by piece with
\* Promise.all; the basic kinds settle in list order, so the first rejection
\* is that of the first failing piece.
convert(kind, isList, value) ==
  IF isList
  THEN LET vs == [k \in 1..Len(value) |-> convertOne(kind, value[k])]
       IN IF FirstThrown(vs) # 0 THEN vs[FirstThrown(vs)] ELSE List(vs)
  ELSE convertOne(kind, value)

\* ------------------------------------------------------------------------
\* Input schema (src/src/input.ts)
\* ------------------------------------------------------------------------

\* new Option(kind, names): the names lose their leading dashes.
Option(key, kind, names) ==
  [key |-> key, isPositional |-> FALSE, kind |-> kind,
   names |-> [k \in 1..Len(names) |-> StripDashes(names[k])],
   default |-> NoDefault, required |-> TRUE, list |-> FALSE, separator |-> Undef]

\* new Positional(kind)
Positional(key, kind) ==
  [key |-> key, isPositional |-> TRUE, kind |-> kind, names |-> <<>>,
   default |-> NoDefault, required |-> TRUE, list |-> FALSE, separator |-> Undef]

\* entry.list(separator?)
list(e, sep) ==
  [e EXCEPT !.list = TRUE, !.separator = IF sep # Undef THEN sep ELSE e.separator]

\* entry.optional()
optional(e) == [e EXCEPT !.required = FALSE]

\* entry.default(value)
default(e, value) == [e EXCEPT !.default = value]

\* ------------------------------------------------------------------------
\* Command tree (src/src/command.ts)
\* ------------------------------------------------------------------------
NoCommand == "none"

\* new Command(names)
Command(names) ==
  [names |-> names, parent |-> NoCommand, children |-> <<>>,
   allowUnknownOptions |-> FALSE, allowSurpassArgLimit |-> FALSE,
   input |-> <<>>, fn |-> "none", middlewares |-> <<>>, errorFn |-> "none"]

\* Map.prototype.set on a map kept as the sequence of its entries in insertion
\* order: a key already present keeps its place and takes the new value.
MapSet(m, k, v) ==
  IF \E j \in 1..Len(m) : m[j].name = k
  THEN [j \in 1..Len(m) |-> IF m[j].name = k THEN [name |-> k] @@ v ELSE m[j]]
  ELSE Append(m, [name |-> k] @@ v)

MapHas(m, k) == \E j \in 1..Len(m) : m[j].name = k
MapGet(m, k) == m[CHOOSE j \in 1..Len(m) : m[j].name = k]

RECURSIVE AddNames(_, _, _, _)
AddNames(m, names, k, alias) ==
  IF k > Len(names) THEN m
  ELSE AddNames(MapSet(m, names[k], alias), names, k + 1, alias)

\* add that registers the first name only.
addFirstNameOnly(t, p, c) ==
  LET alias == [command |-> c, alias |-> t[c].names[1]]
  IN [t EXCEPT ![c].parent = p,
               ![p].children = MapSet(t[p].children, t[c].names[1], alias)]

\* parent.add(command): the parent link, and one children entry per name,
\* each holding the command and its first name.
add(t, p, c) ==
  LET alias == [command |-> c, alias |-> t[c].names[1]]
  IN [t EXCEPT ![c].parent = p,
               ![p].children = AddNames(t[p].children, t[c].names, 1, alias)]

\* A map with no key.
\* command.alias(...aliases): concat returns a new array, which is dropped,
\* so $names stays; the command is added to its parent again, if it has one.
alias(t, c, aliases) ==
  LET concat == t[c].names \o aliases
  IN IF t[c].parent # NoCommand THEN add(t, t[c].parent, c) ELSE t

\* parent.subCommand(names): a new Command(names), added to the parent.
subCommand(t, p, c, names) == add([t EXCEPT ![c] = Command(names)], p, c)

EmptyMap == [k \in {} |-> <<>>]

\* m2's entries written over m1's, as successive map.set calls do.
Override(m1, m2) ==
  [k \in DOMAIN m1 \cup DOMAIN m2 |-> IF k \in DOMAIN m2 THEN m2[k] ELSE m1[k]]

\* The own part of buildInputMap: one key per name of every Option, a later
\* entry overwriting an earlier one of the same name.  (A Positional is
\* stored under a number, which no string key of a token ever equals.)
RECURSIVE OwnMap(_, _)
OwnMap(entries, k) ==
  IF k > Len(entries) THEN EmptyMap
  ELSE LET e == entries[k]
           mine == IF e.isPositional THEN EmptyMap
                   ELSE [n \in {e.names[j] : j \in 1..Len(e.names)} |-> e]
       IN Override(mine, OwnMap(entries, k + 1))

\* ChildrenMaps that merges no child in.
NoChildrenMaps(t, ch, k) == EmptyMap

\* Command.buildInputMap(ignoreParentMap): own entries, then the parent's
\* whole map written over them, then every child's map (without its parent
\* part) written over that, in the order of the children map.
RECURSIVE buildInputMap(_, _, _)
RECURSIVE ChildrenMaps(_, _, _)
ChildrenMaps(t, ch, k) ==
  IF k > Len(ch) THEN EmptyMap
  ELSE Override(buildInputMap(t, ch[k].command, TRUE), ChildrenMaps(t, ch, k + 1))

buildInputMap(t, c, ignoreParentMap) ==
  LET own == OwnMap(t[c].input, 1)
      up == IF ~ignoreParentMap /\ t[c].parent # NoCommand
            THEN buildInputMap(t, t[c].parent, FALSE) ELSE EmptyMap
  IN Override(Override(own, up), ChildrenMaps(t, t[c].children, 1))

\* ------------------------------------------------------------------------
\* Errors (ConvokerError subclasses built by parse and run)
\* ------------------------------------------------------------------------
UnknownOptionError(c, key) == [type |-> "UnknownOptionError", command |-> c, key |-> key]
MissingRequiredOptionError(c, key) ==
  [type |-> "MissingRequiredOptionError", command |-> c, key |-> key]
MissingRequiredArgumentError(c, key) ==
  [type |-> "MissingRequiredArgumentError", command |-> c, key |-> key]
TooManyArgumentsError(c) == [type |-> "TooManyArgumentsError", command |-> c, key |-> <<>>]
HelpAskedError(c) == [type |-> "HelpAskedError", command |-> c, key |-> <<>>]
\* A value thrown by user code or by a conversion: not a ConvokerError.
ThrownError(what) == [type |-> what, command |-> NoCommand, key |-> <<>>]

IsConvokerError(e) ==
  e.type \in {"UnknownOptionError", "MissingRequiredOptionError",
              "MissingRequiredArgumentError", "TooManyArgumentsError", "HelpAskedError"}

\* No list is being converted.
NoConversion == [raw |-> <<>>, settled |-> <<>>, result |-> [t |-> "undefined", v |-> 0]]

\* ------------------------------------------------------------------------
\* State
\* ------------------------------------------------------------------------
VARIABLES
  tree,        \* the command tree, read by parse and run
  self,        \* the command run(argv) is called on
  argv,        \* the argument vector
  pc,          \* where run is: "start", "scan", "bind", "parsed", ..., "done"
  map,         \* parse: const map = command.buildInputMap()
  command,     \* parse: the command resolved so far
  found,       \* parse: a bare token has been taken as a positional
  args,        \* parse: the positional buffer
  opts,        \* parse: raw option values by name
  errors,      \* parse: const errors
  isVersion,   \* parse: let isVersion
  isHelp,      \* parse: let isHelp
  i,           \* parse: the scan cursor, 1-based (argv[i - 1] in the source)
  input,       \* parse: the bound input
  index,       \* parse: the next unclaimed positional, 0-based as in the source
  field,       \* parse: the next field of command.$input to bind, 1-based
  parsed,      \* parse's promise: "pending", "returned" or "rejected"
  outcome,     \* run's promise: "pending", "resolved" or "rejected"
  rejection,   \* the error a rejected promise carries
  seen,        \* history: how the scan took each token of argv
  trace,       \* history: what run called and printed, in order
  calls,       \* history: the calls made before the running one, in order
  conv         \* convert on a list: the raw list, the settled promises, the result

vars == <<tree, self, argv, pc, map, command, found, args, opts, errors,
          isVersion, isHelp, i, input, index, field, parsed, outcome, rejection,
          seen, trace, calls, conv>>

parseVars == <<map, command, found, args, opts, errors, isVersion, isHelp, i,
               input, index, field, parsed, seen>>


\* ------------------------------------------------------------------------
\* parse: the scan
\* ------------------------------------------------------------------------
TRUE_ == <<"t", "r", "u", "e">>
HELP == <<"h", "e", "l", "p">>
VERSION == <<"v", "e", "r", "s", "i", "o", "n">>

\* argv[k] for a 1-based k; undefined past the end.
At(av, k) == IF k \in 1..Len(av) THEN av[k] ELSE Undef

\* A record to stand for "no option" in results that carry an option.
NoOption == Option(<<>>, "none", <<>>)

\* getOption that does not look at isSpecial.
getOptionNoSpecial(t, m, cmd, errs, key, isSpecial) ==
  IF key \in DOMAIN m
  THEN [has |-> TRUE, option |-> m[key], errors |-> errs]
  ELSE [has |-> FALSE, option |-> NoOption,
        errors |-> IF ~t[cmd].allowUnknownOptions
                   THEN Append(errs, UnknownOptionError(cmd, key)) ELSE errs]

\* getOption that never looks at allowUnknownOptions.
getOptionStrict(t, m, cmd, errs, key, isSpecial) ==
  IF key \in DOMAIN m
  THEN [has |-> TRUE, option |-> m[key], errors |-> errs]
  ELSE [has |-> FALSE, option |-> NoOption,
        errors |-> IF ~isSpecial THEN Append(errs, UnknownOptionError(cmd, key)) ELSE errs]

\* getOption that looks at allowUnknownOptions of the root only.
getOptionOfRoot(t, m, cmd, errs, key, isSpecial) ==
  IF key \in DOMAIN m
  THEN [has |-> TRUE, option |-> m[key], errors |-> errs]
  ELSE [has |-> FALSE, option |-> NoOption,
        errors |-> IF ~t["root"].allowUnknownOptions /\ ~isSpecial
                   THEN Append(errs, UnknownOptionError(cmd, key)) ELSE errs]

\* getOption(key, isSpecial): the map's entry for the key; without one, an
\* UnknownOptionError unless the command resolved so far allows unknown
\* options or the key is a reserved one.
getOption(t, m, cmd, errs, key, isSpecial) ==
  IF key \in DOMAIN m
  THEN [has |-> TRUE, option |-> m[key], errors |-> errs]
  ELSE [has |-> FALSE, option |-> NoOption,
        errors |-> IF ~t[cmd].allowUnknownOptions /\ ~isSpecial
                   THEN Append(errs, UnknownOptionError(cmd, key)) ELSE errs]

\* opts[key] = value
Put(o, key, value) == [k \in DOMAIN o \cup {key} |-> IF k = key THEN value ELSE o[k]]

\* setOption(key, option, value)
setOption(o, key, option, value) ==
  IF option.kind = "boolean" THEN Put(o, key, TRUE_)
  ELSE IF value # Undef THEN Put(o, key, value)
  ELSE o

\* seen with the token at k (when there is one) marked as how.
Mark(sn, k, how) == IF k \in 1..Len(sn) THEN [sn EXCEPT ![k] = how] ELSE sn

\* Locals that keeps the error list of the call before.
LocalsKeepErrors(av, c) ==
  [command |-> c, found |-> FALSE, args |-> <<>>, opts |-> EmptyMap, errors |-> errors,
   isVersion |-> FALSE, isHelp |-> FALSE, i |-> 1, input |-> EmptyMap, index |-> 0,
   field |-> 1, parsed |-> "pending", rejection |-> ThrownError("none"),
   seen |-> [k \in 1..Len(av) |-> "unread"]]

\* The locals of parse right after their declarations, as one record.
Locals(av, c) ==
  [command |-> c, found |-> FALSE, args |-> <<>>, opts |-> EmptyMap, errors |-> <<>>,
   isVersion |-> FALSE, isHelp |-> FALSE, i |-> 1, input |-> EmptyMap, index |-> 0,
   field |-> 1, parsed |-> "pending", rejection |-> ThrownError("none"),
   seen |-> [k \in 1..Len(av) |-> "unread"]]

\* LongOption that leaves the name of a child command to the scan.
LongOptionKeepsCommands(t, m, av, cur) ==
  LET kv == SplitKeyValue(Slice(av[cur.i], 2))
      key == kv.key
      isSpecial == key = HELP \/ key = VERSION
      got == getOption(t, m, cur.command, cur.errors, key, isSpecial)
      takesNext == /\ got.has /\ kv.value = Undef /\ got.option.kind # "boolean"
                   /\ ~MapHas(t[cur.command].children, At(av, cur.i + 1))
      value == IF kv.value # Undef THEN kv.value
               ELSE IF takesNext THEN At(av, cur.i + 1) ELSE Undef
      sn == Mark(cur.seen, cur.i, "long")
  IN [cur EXCEPT
        !.isHelp = cur.isHelp \/ key = HELP,
        !.isVersion = cur.isVersion \/ (key # HELP /\ key = VERSION),
        !.errors = got.errors,
        !.opts = IF got.has THEN setOption(cur.opts, key, got.option, value) ELSE cur.opts,
        !.seen = IF takesNext THEN Mark(sn, cur.i + 1, "value") ELSE sn,
        !.i = IF takesNext THEN cur.i + 2 ELSE cur.i + 1]

\* The branch for a token starting with "--".
LongOption(t, m, av, cur) ==
  LET kv == SplitKeyValue(Slice(av[cur.i], 2))
      key == kv.key
      isSpecial == key = HELP \/ key = VERSION
      got == getOption(t, m, cur.command, cur.errors, key, isSpecial)
      takesNext == got.has /\ kv.value = Undef /\ got.option.kind # "boolean"
      value == IF kv.value # Undef THEN kv.value
               ELSE IF takesNext THEN At(av, cur.i + 1) ELSE Undef
      sn == Mark(cur.seen, cur.i, "long")
  IN [cur EXCEPT
        !.isHelp = cur.isHelp \/ key = HELP,
        !.isVersion = cur.isVersion \/ (key # HELP /\ key = VERSION),
        !.errors = got.errors,
        !.opts = IF got.has THEN setOption(cur.opts, key, got.option, value) ELSE cur.opts,
        !.seen = IF takesNext THEN Mark(sn, cur.i + 1, "value") ELSE sn,
        !.i = IF takesNext THEN cur.i + 2 ELSE cur.i + 1]

\* The loop over the characters of a token starting with one "-".  cur.i is
\* the index of the last token read so far (the cluster, or a value taken).
RECURSIVE ShortLoop(_, _, _, _, _, _)
ShortLoop(t, m, av, chars, usedValue, cur) ==
  IF chars = <<>> THEN cur
  ELSE LET char == <<Head(chars)>>
           isSpecial == char = <<"h">> \/ char = <<"V">>
           got == getOption(t, m, cur.command, cur.errors, char, isSpecial)
           takesNext == got.has /\ got.option.kind # "boolean" /\ usedValue = Undef
           value == IF takesNext THEN At(av, cur.i + 1) ELSE usedValue
           nxt == [cur EXCEPT
                     !.isHelp = cur.isHelp \/ char = <<"h">>,
                     !.isVersion = cur.isVersion \/ (char # <<"h">> /\ char = <<"V">>),
                     !.errors = got.errors,
                     !.opts = IF got.has THEN setOption(cur.opts, char, got.option, value)
                              ELSE cur.opts,
                     !.seen = IF takesNext THEN Mark(cur.seen, cur.i + 1, "value")
                              ELSE cur.seen,
                     !.i = IF takesNext THEN cur.i + 1 ELSE cur.i]
       IN ShortLoop(t, m, av, Tail(chars), IF got.has THEN Undef ELSE usedValue, nxt)

\* The branch for a token starting with "-" and not "--".
ShortOptions(t, m, av, cur) ==
  LET kv == SplitKeyValue(Slice(av[cur.i], 1))
      done == ShortLoop(t, m, av, kv.key, kv.value,
                        [cur EXCEPT !.seen = Mark(cur.seen, cur.i, "short")])
  IN [done EXCEPT !.i = done.i + 1]

\* Descends without the test that no positional has been taken yet.
DescendsAfterPositional(t, cur, arg) == MapHas(t[cur.command].children, arg)

\* The test of the bare-token branch: descend into a child.
Descends(t, cur, arg) == MapHas(t[cur.command].children, arg) /\ ~cur.found

\* The branch for a bare token: descend into the child of that name while no
\* positional has been taken, else take the token as a positional.  (The
\* theme a command may carry is handed to the prompt and log modules here;
\* they are outside the model.)
BareToken(t, av, cur) ==
  IF Descends(t, cur, av[cur.i])
  THEN [cur EXCEPT !.command = MapGet(t[cur.command].children, av[cur.i]).command,
                   !.seen = Mark(cur.seen, cur.i, "command"),
                   !.i = cur.i + 1]
  ELSE [cur EXCEPT !.found = TRUE,
                   !.args = Append(cur.args, av[cur.i]),
                   !.seen = Mark(cur.seen, cur.i, "positional"),
                   !.i = cur.i + 1]

IsLong(arg) == StartsWith(arg, <<"-", "-">>)
IsShort(arg) == ~IsLong(arg) /\ StartsWith(arg, <<"-">>)
IsBare(arg) == ~StartsWith(arg, <<"-">>)

\* One turn of the loop over argv.
ScanStep(t, m, av, cur) ==
  IF IsLong(av[cur.i]) THEN LongOption(t, m, av, cur)
  ELSE IF IsShort(av[cur.i]) THEN ShortOptions(t, m, av, cur)
  ELSE BareToken(t, av, cur)

\* ------------------------------------------------------------------------
\* parse: binding the fields of the resolved command
\* ------------------------------------------------------------------------

\* The last name of the option that opts holds; 0 when it holds none.
LastNamePresent(e, o) ==
  IF \E k \in 1..Len(e.names) : e.names[k] \in DOMAIN o
  THEN CHOOSE k \in 1..Len(e.names) :
         e.names[k] \in DOMAIN o /\ \A j \in (k + 1)..Len(e.names) : e.names[j] \notin DOMAIN o
  ELSE 0

\* The first name of the option that opts holds; 0 when it holds none.
FirstNamePresent(e, o) ==
  IF \E k \in 1..Len(e.names) : e.names[k] \in DOMAIN o
  THEN CHOOSE k \in 1..Len(e.names) :
         e.names[k] \in DOMAIN o /\ \A j \in 1..(k - 1) : e.names[j] \notin DOMAIN o
  ELSE 0

\* SeparatorOf without the separator given to list().
SeparatorOfComma(e) == <<",">>

\* The separator a list option is split at.
SeparatorOf(e) == IF e.separator # Undef THEN e.separator ELSE <<",">>

\* The raw value found for a field: has is rawValue !== undefined.
RawValue(e, as, o, idx) ==
  IF e.isPositional
  THEN IF e.list THEN [has |-> TRUE, raw |-> SubSeq(as, idx + 1, Len(as))]
       ELSE [has |-> idx < Len(as), raw |-> At(as, idx + 1)]
  ELSE LET k == FirstNamePresent(e, o)
       IN IF k = 0 THEN [has |-> FALSE, raw |-> Undef]
          ELSE [has |-> TRUE,
                raw |-> IF e.list THEN Split(o[e.names[k]], SeparatorOf(e))
                        ELSE o[e.names[k]]]

\* The errors the Positional branch pushes before conversion.
PositionalErrors(t, cmd, e, rv) ==
  IF e.isPositional
  THEN IF e.list
       THEN IF ~t[cmd].allowSurpassArgLimit /\ Len(rv.raw) = 0 /\ e.required
            THEN <<MissingRequiredArgumentError(cmd, e.key)>> ELSE <<>>
       ELSE IF ~rv.has /\ e.required
            THEN <<MissingRequiredArgumentError(cmd, e.key)>> ELSE <<>>
  ELSE <<>>

\* The errors the last branch pushes: no raw value, no default, required.
RequiredErrors(cmd, e, rv) ==
  IF ~rv.has /\ e.default.t = "undefined" /\ e.required
  THEN IF e.isPositional THEN <<MissingRequiredArgumentError(cmd, e.key)>>
       ELSE <<MissingRequiredOptionError(cmd, e.key)>>
  ELSE <<>>

\* One turn of the loop over command.$input: the raw value of the field, then
\* its conversion, its default or a missing-required error.  A conversion
\* that throws rejects parse.
BindStep(t, cur) ==
  LET e == t[cur.command].input[cur.field]
      rv == RawValue(e, cur.args, cur.opts, cur.index)
      val == IF rv.has THEN convert(e.kind, e.list, rv.raw) ELSE e.default
      nxt == [cur EXCEPT
                !.index = IF ~e.isPositional THEN cur.index
                          ELSE IF e.list THEN Len(cur.args) ELSE cur.index + 1,
                !.errors = cur.errors \o PositionalErrors(t, cur.command, e, rv)
                                      \o RequiredErrors(cur.command, e, rv),
                !.field = cur.field + 1]
  IN IF val.t = "throw"
     THEN [nxt EXCEPT !.parsed = "rejected", !.rejection = ThrownError(val.v)]
     ELSE IF val.t = "undefined" THEN nxt
     ELSE [nxt EXCEPT !.input = Put(cur.input, e.key, val)]

\* After the loop: the check for too many arguments, and the return.
Finish(t, cur) ==
  [cur EXCEPT
     !.errors = IF ~t[cur.command].allowSurpassArgLimit /\ Len(cur.args) > cur.index
                THEN Append(cur.errors, TooManyArgumentsError(cur.command))
                ELSE cur.errors,
     !.parsed = "returned"]

\* The whole of parse(argv) called on command c, as a function of its
\* arguments: the locals when its promise settles.
RECURSIVE ScanAll(_, _, _, _)
ScanAll(t, m, av, cur) ==
  IF cur.i > Len(av) THEN cur ELSE ScanAll(t, m, av, ScanStep(t, m, av, cur))

RECURSIVE BindAll(_, _)
BindAll(t, cur) ==
  IF cur.parsed = "rejected" THEN cur
  ELSE IF cur.field > Len(t[cur.command].input) THEN Finish(t, cur)
  ELSE BindAll(t, BindStep(t, cur))

parse(t, c, av) == BindAll(t, ScanAll(t, buildInputMap(t, c, FALSE), av, Locals(av, c)))

\* ------------------------------------------------------------------------
\* parse, step by step
\* ------------------------------------------------------------------------

\* The locals of the running parse as one record, and their next values.
Cur ==
  [command |-> command, found |-> found, args |-> args, opts |-> opts,
   errors |-> errors, isVersion |-> isVersion, isHelp |-> isHelp, i |-> i,
   input |-> input, index |-> index, field |-> field, parsed |-> parsed,
   rejection |-> rejection, seen |-> seen]

Becomes(nxt) ==
  /\ command' = nxt.command /\ found' = nxt.found /\ args' = nxt.args
  /\ opts' = nxt.opts /\ errors' = nxt.errors /\ isVersion' = nxt.isVersion
  /\ isHelp' = nxt.isHelp /\ i' = nxt.i /\ input' = nxt.input /\ index' = nxt.index
  /\ field' = nxt.field /\ parsed' = nxt.parsed /\ rejection' = nxt.rejection
  /\ seen' = nxt.seen

\* run(argv) awaits parse(argv): the map is built before the loop.
ParseStart ==
  /\ pc = "start"
  /\ pc' = "scan"
  /\ map' = buildInputMap(tree, self, FALSE)
  /\ Becomes(Locals(argv, self))
  /\ UNCHANGED <<conv, calls, tree, self, argv, outcome, trace>>

\* One turn of the loop on a token starting with "--".
ScanLong ==
  /\ pc = "scan" /\ i <= Len(argv) /\ IsLong(argv[i])
  /\ Becomes(LongOption(tree, map, argv, Cur))
  /\ UNCHANGED <<conv, calls, tree, self, argv, pc, map, outcome, trace>>

\* One turn of the loop on a token starting with "-" and not "--".
ScanShort ==
  /\ pc = "scan" /\ i <= Len(argv) /\ IsShort(argv[i])
  /\ Becomes(ShortOptions(tree, map, argv, Cur))
  /\ UNCHANGED <<conv, calls, tree, self, argv, pc, map, outcome, trace>>

\* One turn of the loop on a bare token.
ScanBare ==
  /\ pc = "scan" /\ i <= Len(argv) /\ IsBare(argv[i])
  /\ Becomes(BareToken(tree, argv, Cur))
  /\ UNCHANGED <<conv, calls, tree, self, argv, pc, map, outcome, trace>>

\* The loop over argv ends.
ScanEnd ==
  /\ pc = "scan" /\ i > Len(argv)
  /\ pc' = "bind"
  /\ UNCHANGED <<conv, calls, tree, self, argv, outcome, rejection, trace>> /\ UNCHANGED parseVars

\* One field is bound.  When its conversion throws, parse rejects, and so does
\* run, which awaits parse outside its try block.
BindField ==
  /\ pc = "bind" /\ field <= Len(tree[command].input)
  /\ LET nxt == BindStep(tree, Cur)
     IN /\ Becomes(nxt)
        /\ pc' = IF nxt.parsed = "rejected" THEN "done" ELSE "bind"
        /\ outcome' = IF nxt.parsed = "rejected" THEN "rejected" ELSE outcome
  /\ UNCHANGED <<conv, calls, tree, self, argv, map, trace>>

\* parse returns its result to run.
ParseReturn ==
  /\ pc = "bind" /\ field > Len(tree[command].input)
  /\ Becomes(Finish(tree, Cur))
  /\ pc' = "parsed"
  /\ UNCHANGED <<conv, calls, tree, self, argv, map, outcome, trace>>

\* ------------------------------------------------------------------------
\* run: dispatch
\* ------------------------------------------------------------------------
NoError == ThrownError("none")

\* One entry of the history of run.
Event(op, c, errs, inp) ==
  [op |-> op, command |-> c, errors |-> errs, input |-> inp, k |-> 0]

\* The walk of handleErrors: the nearest command, from c upwards, that has an
\* error handler; the root when none has.
RECURSIVE HandlerOwner(_, _)
HandlerOwner(t, c) ==
  IF t[c].errorFn = "none" /\ t[c].parent # NoCommand
  THEN HandlerOwner(t, t[c].parent) ELSE c

\* The errors of a list that are (are not) ConvokerErrors, in order.
RECURSIVE Select(_, _)
Select(errs, cli) ==
  IF errs = <<>> THEN <<>>
  ELSE (IF IsConvokerError(Head(errs)) = cli THEN <<Head(errs)>> ELSE <<>>)
       \o Select(Tail(errs), cli)

\* The messages defaultErrorScreen prints: one per ConvokerError that is not
\* a HelpAskedError.
RECURSIVE Prints(_, _)
Prints(c, errs) ==
  IF errs = <<>> THEN <<>>
  ELSE (IF IsConvokerError(Head(errs)) /\ Head(errs).type # "HelpAskedError"
        THEN <<Event("print", c, <<Head(errs)>>, EmptyMap)>> ELSE <<>>)
       \o Prints(c, Tail(errs))

\* defaultErrorScreen that throws nothing.
defaultErrorScreenSwallows(c, errs) ==
  [events |-> Prints(c, errs) \o
              (IF Select(errs, TRUE) # <<>>
               THEN <<Event("helpScreen", c, <<>>, EmptyMap)>> ELSE <<>>),
   thrown |-> NoError]

\* defaultErrorScreen(errors) on command c: what it prints, and what it throws.
defaultErrorScreen(c, errs) ==
  LET nonCli == Select(errs, FALSE)
  IN IF nonCli # <<>>
     THEN [events |-> Prints(c, errs), thrown |-> nonCli[1]]
     ELSE [events |-> Prints(c, errs) \o
                      (IF Select(errs, TRUE) # <<>>
                       THEN <<Event("helpScreen", c, <<>>, EmptyMap)>> ELSE <<>>),
           thrown |-> NoError]

\* handleErrors(errors, input) on command c: the nearest error handler is
\* called, or the default error screen of c is shown.
handleErrors(t, c, errs, inp) ==
  LET owner == HandlerOwner(t, c)
  IN IF t[owner].errorFn # "none"
     THEN [events |-> <<Event("errorFn", owner, errs, inp)>>,
           thrown |-> IF t[owner].errorFn = "throw" THEN ThrownError("handlerError")
                      ELSE NoError]
     ELSE defaultErrorScreen(c, errs)

\* collectMiddlewares with the middlewares of a command before its parent's.
RECURSIVE collectMiddlewaresChildFirst(_, _)
collectMiddlewaresChildFirst(t, c) ==
  LET own == [k \in 1..Len(t[c].middlewares) |->
                [command |-> c, k |-> k, does |-> t[c].middlewares[k]]]
  IN IF t[c].parent = NoCommand THEN own
     ELSE own \o collectMiddlewaresChildFirst(t, t[c].parent)

\* collectMiddlewares(cmd): the middlewares of the commands from the root down
\* to cmd, each as [command, k, does].
RECURSIVE collectMiddlewares(_, _)
collectMiddlewares(t, c) ==
  LET own == [k \in 1..Len(t[c].middlewares) |->
                [command |-> c, k |-> k, does |-> t[c].middlewares[k]]]
  IN IF t[c].parent = NoCommand THEN own
     ELSE collectMiddlewares(t, t[c].parent) \o own

\* CallAction that calls the action of the root.
CallActionOfRoot(t, c, inp) ==
  [events |-> <<Event("action", "root", <<>>, inp)>>,
   thrown |-> IF t["root"].fn = "throw" THEN ThrownError("actionError") ELSE NoError]

\* The action of the resolved command, called with the bound input.
CallAction(t, c, inp) ==
  [events |-> <<Event("action", c, <<>>, inp)>>,
   thrown |-> IF t[c].fn = "throw" THEN ThrownError("actionError") ELSE NoError]

\* The error of a second next() of one middleware invocation.
NextTwice == ThrownError("next() called multiple times")

\* The call of middleware mw = [command, k, does] with the input.
Called(mw, inp) == [Event("middleware", mw.command, <<>>, inp) EXCEPT !.k = mw.k]

\* dispatch without the test of the index.
RECURSIVE dispatchUnguarded(_, _, _, _, _, _)
dispatchUnguarded(t, c, inp, mws, n, reached) ==
  IF n > Len(mws) THEN CallAction(t, c, inp) @@ [index |-> n]
  ELSE LET called == <<Called(mws[n], inp)>>
           first == dispatchUnguarded(t, c, inp, mws, n + 1, n)
           second == dispatchUnguarded(t, c, inp, mws, n + 1, first.index)
       IN CASE mws[n].does = "next" ->
                 [events |-> called \o first.events, thrown |-> first.thrown,
                  index |-> first.index]
            [] mws[n].does = "twice" ->
                 IF first.thrown # NoError
                 THEN [events |-> called \o first.events, thrown |-> first.thrown,
                       index |-> first.index]
                 ELSE [events |-> called \o first.events \o second.events,
                       thrown |-> second.thrown, index |-> second.index]
            [] mws[n].does = "throw" ->
                 [events |-> called, thrown |-> ThrownError("middlewareError"), index |-> n]
            [] OTHER -> [events |-> called, thrown |-> NoError, index |-> n]

\* compose(mws)(input, finalNext) from dispatch(n), with the index of the
\* closure (0 before any call, as the middlewares are counted from 1 here):
\* a call with n <= reached (the index) is rejected; past the last middleware the action is
\* called.  A middleware that does "next" awaits next() and returns, "twice"
\* awaits next() and then next() again, "return" returns without calling
\* next, "throw" throws before calling it.
RECURSIVE dispatch(_, _, _, _, _, _)
dispatch(t, c, inp, mws, n, reached) ==
  IF n <= reached THEN [events |-> <<>>, thrown |-> NextTwice, index |-> reached]
  ELSE IF n > Len(mws) THEN CallAction(t, c, inp) @@ [index |-> n]
  ELSE LET called == <<Called(mws[n], inp)>>
           first == dispatch(t, c, inp, mws, n + 1, n)
           second == dispatch(t, c, inp, mws, n + 1, first.index)
       IN CASE mws[n].does = "next" ->
                 [events |-> called \o first.events, thrown |-> first.thrown,
                  index |-> first.index]
            [] mws[n].does = "twice" ->
                 IF first.thrown # NoError
                 THEN [events |-> called \o first.events, thrown |-> first.thrown,
                       index |-> first.index]
                 ELSE [events |-> called \o first.events \o second.events,
                       thrown |-> second.thrown, index |-> second.index]
            [] mws[n].does = "throw" ->
                 [events |-> called, thrown |-> ThrownError("middlewareError"), index |-> n]
            [] OTHER -> [events |-> called, thrown |-> NoError, index |-> n]

\* run, after parse returned with isHelp: the help is handed to the error
\* chain, which run does not await, and run returns.
RunHelp ==
  /\ pc = "parsed" /\ isHelp
  /\ LET h == handleErrors(tree, command, <<HelpAskedError(command)>>, EmptyMap)
     IN trace' = trace \o h.events \o
                 (IF h.thrown # NoError THEN <<Event("unhandled", command, <<h.thrown>>, EmptyMap)>>
                  ELSE <<>>)
  /\ pc' = "done" /\ outcome' = "resolved"
  /\ UNCHANGED <<conv, calls, tree, self, argv, rejection>> /\ UNCHANGED parseVars

\* RunVersion without the test of isHelp before it.
RunVersionFirst ==
  /\ pc = "parsed" /\ isVersion
  /\ trace' = Append(trace, Event("version", command, <<>>, EmptyMap))
  /\ pc' = "done" /\ outcome' = "resolved"
  /\ UNCHANGED <<conv, calls, tree, self, argv, rejection>> /\ UNCHANGED parseVars

\* run, with isVersion and not isHelp: the version line is printed.
RunVersion ==
  /\ pc = "parsed" /\ ~isHelp /\ isVersion
  /\ trace' = Append(trace, Event("version", command, <<>>, EmptyMap))
  /\ pc' = "done" /\ outcome' = "resolved"
  /\ UNCHANGED <<conv, calls, tree, self, argv, rejection>> /\ UNCHANGED parseVars

\* TryBlock that does nothing for a command without an action.
TryBlockNoHelp(t, c, errs, inp) ==
  IF Len(errs) > 0 THEN handleErrors(t, c, errs, inp)
  ELSE IF t[c].fn = "none" THEN [events |-> <<>>, thrown |-> NoError]
  ELSE dispatch(t, c, inp, collectMiddlewares(t, c), 1, 0)

\* What the try block of run does: the error chain for parse errors or for a
\* command without an action, else the middlewares around the action.
TryBlock(t, c, errs, inp) ==
  IF Len(errs) > 0 THEN handleErrors(t, c, errs, inp)
  ELSE IF t[c].fn = "none" THEN handleErrors(t, c, <<HelpAskedError(c)>> \o errs, inp)
  ELSE dispatch(t, c, inp, collectMiddlewares(t, c), 1, 0)

\* RunTry with a catch clause that drops what was thrown.
RunTrySwallows ==
  /\ pc = "parsed" /\ ~isHelp /\ ~isVersion
  /\ trace' = trace \o TryBlock(tree, command, errors, input).events
  /\ outcome' = "resolved" /\ rejection' = NoError
  /\ pc' = "done"
  /\ UNCHANGED <<conv, calls, tree, self, argv>> /\ UNCHANGED parseVars

\* run, neither help nor version: the try block, and the catch clause when
\* it throws; what the catch clause throws rejects run.
RunTry ==
  /\ pc = "parsed" /\ ~isHelp /\ ~isVersion
  /\ LET body == TryBlock(tree, command, errors, input)
         caught == IF body.thrown # NoError
                   THEN handleErrors(tree, command, <<body.thrown>>, EmptyMap)
                   ELSE [events |-> <<>>, thrown |-> NoError]
     IN /\ trace' = trace \o body.events \o caught.events
        /\ outcome' = IF caught.thrown # NoError THEN "rejected" ELSE "resolved"
        /\ rejection' = caught.thrown
  /\ pc' = "done"
  /\ UNCHANGED <<conv, calls, tree, self, argv>> /\ UNCHANGED parseVars

\* ------------------------------------------------------------------------
\* The trees and argument vectors the model runs over
\* ------------------------------------------------------------------------

\* Command.input(schema), .action(fn), .use(...fns), .error(fn),
\* .allowUnknownOptions(), .allowSurpassArgLimit() on command c of tree t.
WithInput(t, c, schema) == [t EXCEPT ![c].input = schema]
WithAction(t, c, does) == [t EXCEPT ![c].fn = does]
Use(t, c, fns) == [t EXCEPT ![c].middlewares = t[c].middlewares \o fns]
WithError(t, c, does) == [t EXCEPT ![c].errorFn = does]
AllowUnknownOptions(t, c) == [t EXCEPT ![c].allowUnknownOptions = TRUE]
AllowSurpassArgLimit(t, c) == [t EXCEPT ![c].allowSurpassArgLimit = TRUE]

\* root, with the children build (alias b) and deploy; build has the child sub.
Names ==
  [c \in {"root", "build", "deploy", "sub"} |->
     CASE c = "root" -> <<<<"r", "o", "o", "t">>>>
       [] c = "build" -> <<<<"b", "u", "i", "l", "d">>, <<"b">>>>
       [] c = "deploy" -> <<<<"d", "e", "p", "l", "o", "y">>>>
       [] OTHER -> <<<<"s", "u", "b">>>>]

Bare == add(add(add([c \in DOMAIN Names |-> Command(Names[c])],
                    "build", "sub"), "root", "build"), "root", "deploy")

\* On or off: the tree, changed by f when on.
Maybe(on, changed, t) == IF on THEN changed ELSE t

\* Every argument vector of at most MaxArgv tokens of the vocabulary.
Argvs(vocab) == UNION {[1..n -> vocab] : n \in 0..MaxArgv}

T_build == <<"b", "u", "i", "l", "d">>
T_b == <<"b">>
T_sub == <<"s", "u", "b">>
T_app == <<"a", "p", "p">>
T_7 == <<"7">>
T_out == <<"-", "-", "o", "u", "t">>

\* Subcommands and positionals: root takes an optional file, build a target
\* and an optional count and the option --out, sub a list of names.
SubcommandTrees ==
  {WithInput(WithInput(WithInput(Bare,
      "root", IF rootFile THEN <<optional(Positional(<<"f">>, "string"))>> ELSE <<>>),
      "build", <<Positional(<<"t">>, "string"),
                 optional(Positional(<<"c">>, "number")),
                 optional(Option(<<"o">>, "string", <<T_out>>))>>),
      "sub", IF subList THEN <<list(Positional(<<"n">>, "string"), Undef)>> ELSE <<>>)
   : rootFile \in BOOLEAN, subList \in BOOLEAN}

SubcommandVocab == {T_build, T_b, T_sub, T_app, T_7, T_out}

T_outEq1 == T_out \o <<"=", "1">>
T_outEqAB == T_out \o <<"=", "a", "=", "b">>
T_aEqB == <<"a", "=", "b">>
T_1 == <<"1">>
T_o == <<"-", "o">>

\* One value-taking option -o / --out on root, a string or a number.
ValueTrees ==
  {WithInput(Bare, "root", <<Option(<<"o">>, kind, <<T_o, T_out>>)>>)
   : kind \in {"string", "number"}}

ValueVocab == {T_outEq1, T_outEqAB, T_out, T_aEqB, T_1, T_o}

T_ab == <<"-", "a", "b">>
T_a == <<"-", "a">>
T_verbose == <<"-", "-", "v", "e", "r", "b", "o", "s", "e">>
T_verboseEqX == T_verbose \o <<"=", "x">>
T_vEqX == <<"-", "v", "=", "x">>
T_x == <<"x">>

\* Boolean flags on root: -a, -b with default(false), and the optional
\* -v / --verbose; build may declare -a too, as a string option.
FlagTrees ==
  {WithInput(WithInput(Bare,
      "root", <<Option(<<"a">>, "boolean", <<T_a>>),
                default(optional(Option(<<"b">>, "boolean", <<<<"-", "b">>>>)), Bool(FALSE)),
                optional(Option(<<"v">>, "boolean", <<<<"-", "v">>, T_verbose>>))>>),
      "build", IF same THEN <<optional(Option(<<"x">>, "string", <<T_a>>))>> ELSE <<>>)
   : same \in BOOLEAN}

FlagVocab == {T_ab, T_a, T_verbose, T_verboseEqX, T_vEqX, T_x}

T_deploy == <<"d", "e", "p", "l", "o", "y">>
T_r == <<"-", "r">>
T_n == <<"-", "n">>

\* Required fields: root has the optional bigint option -n, the required
\* option -r and a required positional; build a required option and a
\* required positional; deploy a required list of positionals, and may allow
\* surpassing the argument limit.
RequiredTrees ==
  {Maybe(surpass, AllowSurpassArgLimit(t, "deploy"), t) :
     surpass \in BOOLEAN,
     t \in {WithInput(WithInput(WithInput(Bare,
          "root", <<optional(Option(<<"n">>, "bigint", <<T_n>>)),
                    Option(<<"r">>, "string", <<T_r>>),
                    Positional(<<"p">>, "string")>>),
          "build", <<Option(<<"q">>, "string", <<<<"-", "q">>>>),
                     Positional(<<"t">>, "string")>>),
          "deploy", <<list(Positional(<<"f">>, "string"), Undef)>>)}}

RequiredVocab == {T_build, T_deploy, T_r, T_n, T_x, T_1}

T_p == <<"-", "p">>
T_pEq1 == <<"-", "p", "=", "1">>

\* One field with a default on root: an option or a positional, a scalar or
\* a list, required (as built) or optional.
DefaultEntries ==
  {IF isList THEN default(list(e, Undef), List(<<Num(3000)>>)) ELSE default(e, Num(3000)) :
     isList \in BOOLEAN,
     e \in {Option(<<"p">>, "number", <<T_p>>), optional(Option(<<"p">>, "number", <<T_p>>)),
            Positional(<<"p">>, "number"), optional(Positional(<<"p">>, "number"))}}

DefaultTrees == {WithInput(Bare, "root", <<e>>) : e \in DefaultEntries}

DefaultVocab == {T_p, T_pEq1, T_1, T_build}

T_bogus == <<"-", "-", "b", "o", "g", "u", "s">>
T_bogusEq1 == <<"-", "-", "b", "o", "g", "u", "s", "=", "1">>
T_z == <<"-", "z">>
T_zo == <<"-", "z", "o">>

\* Unknown options: root declares only the string option -o; root and build
\* each may allow unknown options.
UnknownTrees ==
  {Maybe(onRoot, AllowUnknownOptions(t, "root"), t) :
     onRoot \in BOOLEAN,
     t \in {Maybe(onBuild, AllowUnknownOptions(u, "build"), u) :
              onBuild \in BOOLEAN,
              u \in {WithInput(Bare, "root",
                       <<optional(Option(<<"o">>, "string", <<T_o>>))>>)}}}

UnknownVocab == {T_bogus, T_bogusEq1, T_z, T_zo, T_x, T_build}

T_numbers == <<"-", "-", "n", "u", "m", "b", "e", "r", "s">>
T_numbersEq == T_numbers \o <<"=", "4", ";", "5">>
T_1c2c3 == <<"1", ",", "2", ",", "3">>
T_1s2 == <<"1", ";", "2">>
T_c1 == <<",", "1", ",">>

\* A list option named --numbers and -n on root, of numbers or of strings,
\* with the default separator or ";".
ListTrees ==
  {WithInput(Bare, "root", <<optional(list(Option(<<"n", "s">>, kind, <<T_numbers, T_n>>), sep))>>) :
     kind \in {"number", "string"}, sep \in {Undef, <<";">>}}

ListVocab == {T_numbers, T_numbersEq, T_n, T_1c2c3, T_1s2, T_c1}

T_f == <<"-", "f">>
T_flag == <<"-", "-", "f", "l", "a", "g">>
T_name == <<"-", "-", "n", "a", "m", "e">>
T_nameEqY == T_name \o <<"=", "y">>

\* Options declared on a subcommand only: build has the boolean option
\* -f / --flag and the string option --name; root declares nothing.
SubOptionTrees ==
  {WithInput(Bare, "build",
     <<optional(Option(<<"f">>, "boolean", <<T_f, T_flag>>)),
       optional(Option(<<"n">>, "string", <<T_name>>))>>)}

SubOptionVocab == {T_build, T_f, T_flag, T_name, T_nameEqY, T_x}

T_help == <<"-", "-", "h", "e", "l", "p">>
T_h == <<"-", "h">>
T_version == <<"-", "-", "v", "e", "r", "s", "i", "o", "n">>
T_V == <<"-", "V">>
T_Vh == <<"-", "V", "h">>

\* Help and version: root has an action behind one middleware and the
\* required string option --out; it has no error handler, or one that
\* returns, or one that throws.
HelpTrees ==
  {Maybe(does # "none", WithError(t, "root", does), t) :
     does \in {"none", "ok", "throw"},
     t \in {Use(WithAction(WithInput(Bare,
               "root", <<Option(<<"o">>, "string", <<T_out>>)>>),
               "root", "ok"),
               "root", <<"next">>)}}

HelpVocab == {T_help, T_h, T_version, T_V, T_Vh, T_out}

T_xEq2 == <<"-", "x", "=", "2">>
T_yEq3 == <<"-", "y", "=", "3">>

\* What varies in the trees of run: what the second middleware of root (m1)
\* and the middleware of build (m2) do, what the action of build does, and
\* which command has an error handler.
Shape(m1, m2, fn, handler) == [m1 |-> m1, m2 |-> m2, fn |-> fn, handler |-> handler]

RunShapes ==
  {Shape("next", m2, "ok", "none") : m2 \in {"next", "return", "twice", "throw"}}
  \cup {Shape(m1, "next", "ok", "none") : m1 \in {"return", "twice", "throw"}}
  \cup {Shape("next", "next", fn, h) : fn \in {"throw", "none"}, h \in {"none", "root", "build"}}
  \cup {Shape("throw", "next", "ok", "root"), Shape("next", "twice", "ok", "root"),
        Shape("twice", "twice", "ok", "none")}

\* Dispatch: root has an action and the middlewares "next" and m1; build has
\* the required number options -x and -y, the middleware m2 and maybe an
\* action; deploy and sub, which no argument vector here resolves to, have a
\* middleware and an action each.
RunTree(sh) ==
  LET base == Use(Use(Use(Use(Use(
                WithAction(WithAction(WithAction(WithInput(Bare,
                  "build", <<Option(<<"x">>, "number", <<<<"-", "x">>>>),
                             Option(<<"y">>, "number", <<<<"-", "y">>>>)>>),
                  "root", "ok"), "deploy", "ok"), "sub", "ok"),
                "root", <<"next">>), "root", <<sh.m1>>), "build", <<sh.m2>>),
                "deploy", <<"next">>), "sub", <<"next">>)
      acted == Maybe(sh.fn # "none", WithAction(base, "build", sh.fn), base)
  IN Maybe(sh.handler # "none",
           WithError(acted, IF sh.handler = "build" THEN "build" ELSE "root", "ok"), acted)

RunTrees == {RunTree(sh) : sh \in RunShapes}

RunVocab == {T_build, T_xEq2, T_yEq3}

\* Commands without an action or input; root, build or none of them has an
\* error handler.
NoActionTrees ==
  {Bare, WithError(Bare, "root", "ok"), WithError(WithError(Bare, "root", "ok"), "build", "ok")}

NoActionVocab == {T_build, T_version, T_help}

T_asEqV == <<"-", "a", "s", "=", "v">>
T_su == <<"-", "s", "u">>

\* Short clusters: root declares the boolean option -a and the string options
\* -s and -u, all optional.
ClusterTrees ==
  {WithInput(Bare, "root",
     <<optional(Option(<<"a">>, "boolean", <<T_a>>)),
       optional(Option(<<"s">>, "string", <<<<"-", "s">>>>)),
       optional(Option(<<"u">>, "string", <<<<"-", "u">>>>))>>)}

ClusterVocab == {T_asEqV, T_su, T_x, T_1}

Scenarios ==
  {[tree |-> t, vocab |-> SubcommandVocab] : t \in SubcommandTrees}
  \cup {[tree |-> t, vocab |-> ValueVocab] : t \in ValueTrees}
  \cup {[tree |-> t, vocab |-> FlagVocab] : t \in FlagTrees}
  \cup {[tree |-> t, vocab |-> RequiredVocab] : t \in RequiredTrees}
  \cup {[tree |-> t, vocab |-> DefaultVocab] : t \in DefaultTrees}
  \cup {[tree |-> t, vocab |-> UnknownVocab] : t \in UnknownTrees}
  \cup {[tree |-> t, vocab |-> ListVocab] : t \in ListTrees}
  \cup {[tree |-> t, vocab |-> SubOptionVocab] : t \in SubOptionTrees}
  \cup {[tree |-> t, vocab |-> HelpVocab] : t \in HelpTrees}
  \cup {[tree |-> t, vocab |-> RunVocab] : t \in RunTrees}
  \cup {[tree |-> t, vocab |-> NoActionVocab] : t \in NoActionTrees}
  \cup {[tree |-> t, vocab |-> ClusterVocab] : t \in ClusterTrees}

\* The state before run(argv), or the first parse(argv), is called on the
\* root of a tree of the scenarios scs.
InitOver(scs) ==
  /\ \E sc \in scs : tree = sc.tree /\ argv \in Argvs(sc.vocab)
  /\ self = "root"
  /\ pc = "start"
  /\ map = EmptyMap
  /\ command = "root" /\ found = FALSE /\ args = <<>> /\ opts = EmptyMap
  /\ errors = <<>> /\ isVersion = FALSE /\ isHelp = FALSE /\ i = 1
  /\ input = EmptyMap /\ index = 0 /\ field = 1 /\ parsed = "pending"
  /\ rejection = NoError /\ seen = [k \in 1..Len(argv) |-> "unread"]
  /\ outcome = "pending" /\ trace = <<>> /\ calls = <<>> /\ conv = NoConversion

Init == InitOver(Scenarios)

Next ==
  \/ ParseStart
  \/ ScanLong
  \/ ScanShort
  \/ ScanBare
  \/ ScanEnd
  \/ BindField
  \/ ParseReturn
  \/ RunHelp
  \/ RunVersion
  \/ RunTry

Spec == Init /\ [][Next]_vars

\* ------------------------------------------------------------------------
\* Properties
\* ------------------------------------------------------------------------

\* The elements of a sequence at the indexes of a set, in order.
RECURSIVE Pick(_, _, _)
Pick(sq, idx, k) ==
  IF k > Len(sq) THEN <<>>
  ELSE (IF k \in idx THEN <<sq[k]>> ELSE <<>>) \o Pick(sq, idx, k + 1)

\* The child of command c that has tok among its names; NoCommand without one.
ChildNamed(t, c, tok) ==
  LET kids == {x \in DOMAIN t : t[x].parent = c /\ \E k \in 1..Len(t[x].names) : t[x].names[k] = tok}
  IN IF kids = {} THEN NoCommand ELSE CHOOSE x \in kids : TRUE

\* Subcommand resolution as the specification words it: the bare tokens are
\* walked in order; a child's name descends while no positional was taken.
RECURSIVE Walk(_, _, _, _, _)
Walk(t, c, taken, buf, toks) ==
  IF toks = <<>> THEN [command |-> c, args |-> buf]
  ELSE IF ~taken /\ ChildNamed(t, c, Head(toks)) # NoCommand
       THEN Walk(t, ChildNamed(t, c, Head(toks)), taken, buf, Tail(toks))
       ELSE Walk(t, c, TRUE, Append(buf, Head(toks)), Tail(toks))

\* The bare tokens of argv that no option took as its value, in order.
BareTokens == Pick(argv, {k \in 1..Len(argv) : IsBare(argv[k]) /\ seen[k] # "value"}, 1)

\* The Positional entries of a schema, in declaration order.
Positionals(schema) == Pick(schema, {k \in 1..Len(schema) : schema[k].isPositional}, 1)

\* C1: when parse returns, the resolved command and the positional buffer are
\* those of the walk over the bare tokens (a child's name descends only
\* before the first positional), and the k-th declared positional of the
\* resolved command, the first k being scalars, is bound to the conversion of
\* the k-th buffered token.
C1_SubcommandResolution ==
  parsed = "returned" =>
    LET w == Walk(tree, self, FALSE, <<>>, BareTokens)
        ps == Positionals(tree[command].input)
    IN /\ command = w.command
       /\ args = w.args
       /\ \A k \in 1..Len(args) :
            (k <= Len(ps) /\ \A j \in 1..k : ~ps[j].list) =>
              /\ ps[k].key \in DOMAIN input
              /\ input[ps[k].key] = convertOne(ps[k].kind, args[k])

\* C1 witness: build was resolved, then app was taken as a positional, and the
\* later token sub, a child of build, was taken as a positional too.
C1_Witness ==
  /\ parsed = "returned" /\ command = "build"
  /\ argv = <<T_build, T_app, T_sub>>
  /\ args = <<T_app, T_sub>>
  /\ input[<<"t">>] = Str(T_app)

\* The place of the first "=" of a string; 0 without one.
FirstEq(str) ==
  IF \E k \in 1..Len(str) : str[k] = "="
  THEN CHOOSE k \in 1..Len(str) : str[k] = "=" /\ \A j \in 1..(k - 1) : str[j] # "="
  ELSE 0

\* What the caller of parse sees of a settled call.
Settled(cur) ==
  [parsed |-> cur.parsed, rejection |-> cur.rejection,
   command |-> IF cur.parsed = "returned" THEN cur.command ELSE NoCommand,
   input |-> IF cur.parsed = "returned" THEN cur.input ELSE EmptyMap,
   errors |-> IF cur.parsed = "returned" THEN cur.errors ELSE <<>>,
   isHelp |-> cur.parsed = "returned" /\ cur.isHelp,
   isVersion |-> cur.parsed = "returned" /\ cur.isVersion]

\* C2: for a declared non-boolean option key and any text v, also one holding
\* "=", parse(["--key=v"]) settles as parse(["--key", "v"]) does: the same
\* bound input and the same errors, v being all that follows the first "=".
C2_EqualsSyntax ==
  (parsed # "pending" /\ Len(argv) = 1 /\ IsLong(argv[1]) /\ FirstEq(argv[1]) > 3) =>
    LET p == FirstEq(argv[1])
        key == SubSeq(argv[1], 3, p - 1)
        v == SubSeq(argv[1], p + 1, Len(argv[1]))
    IN (key \in DOMAIN map /\ map[key].kind # "boolean") =>
         Settled(Cur) = Settled(parse(tree, self, <<<<"-", "-">> \o key, v>>))

\* The option names a token gives: the key of a long token, the characters
\* of a cluster.
FlagsOf(tok) ==
  LET text == IF IsLong(tok) THEN Slice(tok, 2) ELSE Slice(tok, 1)
      p == FirstEq(text)
      key == IF p = 0 THEN text ELSE SubSeq(text, 1, p - 1)
  IN IF IsLong(tok) THEN {key} ELSE {<<key[k]>> : k \in 1..Len(key)}

NamesOf(e) == {e.names[k] : k \in 1..Len(e.names)}

\* The tokens of argv that the scan read as option tokens.
OptionTokens == {k \in 1..Len(argv) : seen[k] \in {"long", "short"}}

\* Some option token of argv gives a name of entry e.
Given(e) == \E k \in OptionTokens : FlagsOf(argv[k]) \cap NamesOf(e) # {}

BooleanOptions(schema) ==
  {schema[k] : k \in {j \in 1..Len(schema) :
     ~schema[j].isPositional /\ schema[j].kind = "boolean" /\ ~schema[j].list}}

\* C3: when parse returns, every boolean option of the resolved command whose
\* flag is given (long, long with "=", short, or in a cluster) is bound to
\* true, and a token of boolean flags only does not take the next token as a
\* value; a flag not given leaves its field absent without a default, and
\* false with default(false).
C3_BooleanFlags ==
  parsed = "returned" =>
    /\ \A e \in BooleanOptions(tree[command].input) :
         /\ Given(e) => (e.key \in DOMAIN input /\ input[e.key] = Bool(TRUE))
         /\ (~Given(e) /\ e.default.t = "undefined") => e.key \notin DOMAIN input
         /\ (~Given(e) /\ e.default = Bool(FALSE)) =>
              (e.key \in DOMAIN input /\ input[e.key] = Bool(FALSE))
    /\ \A k \in OptionTokens :
         (/\ k < Len(argv)
          /\ \A f \in FlagsOf(argv[k]) :
               \E e \in BooleanOptions(tree[command].input) : f \in NamesOf(e))
         => seen[k + 1] # "value"

\* The place in the positional buffer (0-based) where the k-th field of a
\* schema, a Positional, starts to claim tokens: the number of Positionals
\* before it, or the end of the buffer when one of them is a list.
StartOf(schema, k, buf) ==
  LET before == {j \in 1..(k - 1) : schema[j].isPositional}
  IN IF \E j \in before : schema[j].list THEN Len(buf) ELSE Cardinality(before)

\* The k-th field of the resolved command receives no input: no name of the
\* option is in opts, no buffered token is left for the positional.
NoInput(k) ==
  LET e == tree[command].input[k]
  IN IF e.isPositional THEN StartOf(tree[command].input, k, args) >= Len(args)
     ELSE NamesOf(e) \cap DOMAIN opts = {}

\* The missing-required error for a field.
MissingError(e) ==
  IF e.isPositional THEN MissingRequiredArgumentError(command, e.key)
  ELSE MissingRequiredOptionError(command, e.key)

Holds(errs, err) == \E j \in 1..Len(errs) : errs[j] = err

\* C4: parse never rejects, and when it has settled, every field of the
\* resolved command that is required, has no default and receives no input
\* has its missing-required error in the error list.
C4_MissingRequired ==
  parsed # "pending" =>
    \A k \in 1..Len(tree[command].input) :
      LET e == tree[command].input[k]
      IN (e.required /\ e.default.t = "undefined" /\ NoInput(k)) =>
           (parsed = "returned" /\ Holds(errors, MissingError(e)))

\* C5: when parse returns, every field with a default that receives no input
\* is bound to the default, and no missing-required error names it.
C5_DefaultRoundTrip ==
  parsed = "returned" =>
    \A k \in 1..Len(tree[command].input) :
      LET e == tree[command].input[k]
      IN (e.default.t # "undefined" /\ NoInput(k)) =>
           /\ e.key \in DOMAIN input /\ input[e.key] = e.default
           /\ ~Holds(errors, MissingError(e))

\* The keys an option token names, in order: the one key of a long token,
\* the characters of a short one.
KeysOf(tok) ==
  LET text == IF IsLong(tok) THEN Slice(tok, 2) ELSE Slice(tok, 1)
      p == FirstEq(text)
      key == IF p = 0 THEN text ELSE SubSeq(text, 1, p - 1)
  IN IF IsLong(tok) THEN <<key>> ELSE [k \in 1..Len(key) |-> <<key[k]>>]

Reserved == {HELP, VERSION, <<"h">>, <<"V">>}

\* A key that is in neither the merged lookup table nor the reserved set.
Unknown(key) == key \notin DOMAIN map /\ key \notin Reserved

RECURSIVE UnknownErrors(_, _)
UnknownErrors(cmd, keys) ==
  IF keys = <<>> THEN <<>>
  ELSE (IF Unknown(Head(keys)) THEN <<UnknownOptionError(cmd, Head(keys))>> ELSE <<>>)
       \o UnknownErrors(cmd, Tail(keys))

\* The scan is about to read an option token.
AtOptionToken == pc = "scan" /\ i <= Len(argv) /\ ~IsBare(argv[i])

\* C6: the step that reads an option token adds, for each unknown key of the
\* token in order, an UnknownOptionError with that key when the command
\* resolved so far does not allow unknown options, and no error when it does;
\* when every key of the token is unknown, nothing is added to the bound
\* options, the resolved command and the positionals stay, and the next token
\* is left unread to be classified on its own in the next step.
C6_UnknownOption ==
  [][AtOptionToken =>
       LET keys == KeysOf(argv[i])
       IN /\ errors' = errors \o (IF tree[command].allowUnknownOptions THEN <<>>
                                  ELSE UnknownErrors(command, keys))
          /\ (\A k \in 1..Len(keys) : Unknown(keys[k])) =>
               /\ opts' = opts /\ command' = command /\ args' = args
               /\ i' = i + 1
               /\ i + 1 <= Len(argv) => seen'[i + 1] = "unread"]_vars

\* C6 witness: --bogus is reported as unknown and the token after it is
\* taken as a positional.
C6_Witness ==
  /\ parsed = "returned" /\ argv = <<T_bogus, T_x>> /\ ~tree["root"].allowUnknownOptions
  /\ errors[1] = UnknownOptionError("root", <<"b", "o", "g", "u", "s">>)
  /\ args = <<T_x>> /\ seen = <<"long", "positional">>

\* The places of a one-character separator in a string, and the j-th piece
\* between them, counted from the left.
Cuts(s, sep) == {p \in 1..Len(s) : <<s[p]>> = sep}

Nth(cuts, j) == CHOOSE p \in cuts : Cardinality({q \in cuts : q < p}) = j - 1

Piece(s, sep, j) ==
  LET cuts == Cuts(s, sep)
      lo == IF j = 1 THEN 0 ELSE Nth(cuts, j - 1)
      hi == IF j = Cardinality(cuts) + 1 THEN Len(s) + 1 ELSE Nth(cuts, j)
  IN SubSeq(s, lo + 1, hi - 1)

\* The raw text bound for an option: that of its first declared name given.
RawOf(e) == opts[e.names[FirstNamePresent(e, opts)]]

\* C7: when parse returns, a list option of the resolved command that has a
\* raw value is bound to a list with one element per piece of the raw value
\* between separators (the one given to list(), else ","), element j being
\* the conversion of piece j with the option's kind.
C7_ListOption ==
  parsed = "returned" =>
    \A k \in 1..Len(tree[command].input) :
      LET e == tree[command].input[k]
      IN (~e.isPositional /\ e.list /\ FirstNamePresent(e, opts) # 0) =>
           LET sep == IF e.separator = Undef THEN <<",">> ELSE e.separator
               n == Cardinality(Cuts(RawOf(e), sep)) + 1
           IN /\ e.key \in DOMAIN input
              /\ input[e.key].t = "list"
              /\ Len(input[e.key].v) = n
              /\ \A j \in 1..n :
                   input[e.key].v[j] = convertOne(e.kind, Piece(RawOf(e), sep, j))

\* C7 witness: --numbers 1,2,3 of numeric kind is bound to [1, 2, 3], and
\* --numbers=4;5 with the separator ";" to [4, 5].
C7_Witness ==
  /\ parsed = "returned"
  /\ \/ /\ argv = <<T_numbers, T_1c2c3>>
        /\ input[<<"n", "s">>] = List(<<Num(1), Num(2), Num(3)>>)
     \/ /\ argv = <<T_numbersEq>> /\ tree["root"].input[1].separator = <<";">>
        /\ input[<<"n", "s">>] = List(<<Num(4), Num(5)>>)

\* The options of a schema, by name.
Declared(schema) == OwnMap(schema, 1)

\* A sequence of tokens made of whole option groups of a schema: a token of
\* the schema's option names that is boolean or carries "=value", or a
\* value-taking one followed by its value token.
RECURSIVE Groups(_, _)
Groups(toks, schema) ==
  IF toks = <<>> THEN TRUE
  ELSE LET tok == Head(toks)
           keys == KeysOf(tok)
           d == Declared(schema)
       IN /\ ~IsBare(tok)
          /\ \A k \in 1..Len(keys) : keys[k] \in DOMAIN d
          /\ IF FirstEq(tok) # 0 \/ \A k \in 1..Len(keys) : d[keys[k]].kind = "boolean"
             THEN Groups(Tail(toks), schema)
             ELSE /\ Len(keys) = 1 /\ Len(toks) >= 2
                  /\ Groups(Tail(Tail(toks)), schema)

Front(sq) == SubSeq(sq, 1, Len(sq) - 1)
Last(sq) == sq[Len(sq)]
NoUnknownOptionError(errs) == \A k \in 1..Len(errs) : errs[k].type # "UnknownOptionError"

\* C8: when the argument vector is the option tokens of a child c of the
\* parsing command (options the parsing command does not declare itself)
\* followed by a name of c, parse resolves to c without an
\* UnknownOptionError, and parsing the name of c followed by the same option
\* tokens gives the same command, the same bound input and the same errors.
C8_SubcommandOptionOrder ==
  (parsed = "returned" /\ Len(argv) >= 2 /\ MapHas(tree[self].children, Last(argv))) =>
    LET c == MapGet(tree[self].children, Last(argv)).command
        after == parse(tree, self, <<Last(argv)>> \o Front(argv))
    IN (/\ Groups(Front(argv), tree[c].input)
        /\ DOMAIN Declared(tree[self].input) \cap DOMAIN Declared(tree[c].input) = {}) =>
         /\ command = c /\ after.command = c
         /\ input = after.input
         /\ NoUnknownOptionError(errors) /\ NoUnknownOptionError(after.errors)
         /\ errors = after.errors

\* C8 witness: --name x given before build is bound on build as it is after.
C8_Witness ==
  /\ parsed = "returned" /\ argv = <<T_name, T_x, T_build>>
  /\ command = "build" /\ input[<<"n">>] = Str(T_x) /\ errors = <<>>
  /\ parse(tree, self, <<T_build, T_name, T_x>>).input = input

\* A token that asks for help: --help (with or without "=value"), or a token
\* of short flags with the character h.
AsksHelp(tok) ==
  IF IsLong(tok) THEN KeysOf(tok)[1] = HELP
  ELSE IsShort(tok) /\ \E j \in 1..Len(KeysOf(tok)) : KeysOf(tok)[j] = <<"h">>

\* What run has done so far keeps to the help path: no action, middleware,
\* version line or error message, and an error handler has been given
\* nothing but one HelpAskedError of the resolved command.
OnlyHelp ==
  \A j \in 1..Len(trace) :
    /\ trace[j].op \notin {"action", "middleware", "version", "print"}
    /\ trace[j].op = "errorFn" => trace[j].errors = <<HelpAskedError(command)>>

\* The error chain has been entered with the HelpAskedError.
HelpHandled ==
  /\ trace # <<>>
  /\ \/ trace[1].op = "errorFn" /\ trace[1].errors = <<HelpAskedError(command)>>
     \/ trace[1].op = "helpScreen"

\* C9 as stated: whenever some token of argv asks for help, the returned
\* parse has isHelp, and run keeps to the help path and hands the
\* HelpAskedError to the error chain.
C9_HelpPrecedence ==
  (\E k \in 1..Len(argv) : AsksHelp(argv[k])) =>
    /\ parsed = "returned" => isHelp
    /\ OnlyHelp
    /\ (pc = "done" /\ parsed = "returned") => HelpHandled

\* C9 amended: whenever some token of argv that the scan has read as an
\* option token (not taken as the value of an option before it) asks for
\* help, isHelp is set, and run keeps to the help path and, when parse has
\* returned, hands the HelpAskedError to the error chain.
C9_HelpPrecedenceScanned ==
  (\E k \in OptionTokens : AsksHelp(argv[k])) =>
    /\ isHelp
    /\ OnlyHelp
    /\ (pc = "done" /\ parsed = "returned") => HelpHandled

\* C9 witness: --version and -h together with a missing required option;
\* run has handed only the HelpAskedError to the error handler.
C9_Witness ==
  /\ pc = "done" /\ argv = <<T_version, T_h>> /\ isHelp /\ isVersion
  /\ errors = <<MissingRequiredOptionError("root", <<"o">>)>>
  /\ tree["root"].errorFn = "ok"
  /\ trace = <<Event("errorFn", "root", <<HelpAskedError("root")>>, EmptyMap)>>

\* A token that is exactly one of the reserved flags.
ReservedTokens == {T_help, T_version, T_h, T_V}

\* C10: when no reserved key is declared in the tree, the step that reads
\* --help, --version, -h or -V sets isHelp (for --help, -h) or isVersion
\* (for --version, -V), leaves the other flag, the error list, the bound
\* options and the bound input unchanged, and reads no further token.
C10_ReservedKeys ==
  [][(AtOptionToken /\ argv[i] \in ReservedTokens /\ Reserved \cap DOMAIN map = {}) =>
       /\ isHelp' = (isHelp \/ argv[i] \in {T_help, T_h})
       /\ isVersion' = (isVersion \/ argv[i] \in {T_version, T_V})
       /\ errors' = errors /\ opts' = opts /\ input' = input
       /\ i' = i + 1]_vars

\* C10 witness: -V alone, unknown options not allowed: isVersion is set and
\* no UnknownOptionError is recorded.
C10_Witness ==
  /\ parsed = "returned" /\ argv = <<T_V>> /\ ~tree["root"].allowUnknownOptions
  /\ isVersion /\ ~isHelp /\ NoUnknownOptionError(errors) /\ opts = EmptyMap

\* The commands from the root down to c.
RECURSIVE PathTo(_, _)
PathTo(t, c) ==
  IF t[c].parent = NoCommand THEN <<c>> ELSE Append(PathTo(t, t[c].parent), c)

\* What the middlewares registered on the commands of a path do, in order.
RECURSIVE DoesOn(_, _)
DoesOn(t, path) ==
  IF path = <<>> THEN <<>> ELSE t[Head(path)].middlewares \o DoesOn(t, Tail(path))

\* The places of the trace where an action was called.
Actions == {j \in 1..Len(trace) : trace[j].op = "action"}

\* C11: an action is called only without isHelp, isVersion and parse errors,
\* and it is the action of the resolved command, called with the bound
\* input; when run is done after a parse without help, version and errors,
\* the resolved command has an action and every middleware from the root
\* down to it calls next once, the action has been called exactly once.
C11_ActionInvoked ==
  /\ \A j \in Actions :
       /\ ~isHelp /\ ~isVersion /\ errors = <<>> /\ parsed = "returned"
       /\ trace[j].command = command /\ trace[j].input = input
  /\ (/\ pc = "done" /\ parsed = "returned" /\ ~isHelp /\ ~isVersion /\ errors = <<>>
      /\ tree[command].fn # "none"
      /\ \A k \in 1..Len(DoesOn(tree, PathTo(tree, command))) :
           DoesOn(tree, PathTo(tree, command))[k] = "next")
     => Cardinality(Actions) = 1

\* C11 witness: build -x=2 -y=3 has called the action of build with
\* {x: 2, y: 3}.
C11_Witness ==
  /\ pc = "done" /\ argv = <<T_build, T_xEq2, T_yEq3>>
  /\ \E j \in Actions :
       /\ trace[j].command = "build"
       /\ trace[j].input = (<<"x">> :> Num(2) @@ <<"y">> :> Num(3))

\* The places of the path from the root to the resolved command whose
\* command has an error handler.
Handlers == {k \in 1..Len(PathTo(tree, command)) : tree[PathTo(tree, command)[k]].errorFn # "none"}

\* The error chain was entered from the resolved command with a
\* HelpAskedError as the only error: the error handler nearest to the
\* resolved command got it, or without any handler the help screen of the
\* resolved command was shown; no error message was printed.
HelpChainEntered ==
  /\ trace # <<>>
  /\ IF Handlers # {}
     THEN /\ trace[1].op = "errorFn"
          /\ trace[1].command =
               PathTo(tree, command)[CHOOSE k \in Handlers : \A j \in Handlers : j <= k]
          /\ trace[1].errors = <<HelpAskedError(command)>>
     ELSE trace = <<Event("helpScreen", command, <<>>, EmptyMap)>>
  /\ \A j \in 1..Len(trace) : trace[j].op # "print"

\* C12 as stated: when run is done after a parse without errors that
\* resolved to a command without an action, the error chain was entered from
\* the resolved command with only a HelpAskedError.
C12_NoAction ==
  (pc = "done" /\ parsed = "returned" /\ errors = <<>> /\ tree[command].fn = "none")
    => HelpChainEntered

\* C12 amended: the same, when the version was not asked for.
C12_NoActionNoVersion ==
  (pc = "done" /\ parsed = "returned" /\ errors = <<>> /\ ~isVersion
   /\ tree[command].fn = "none")
    => HelpChainEntered

\* C12 witness: build -x=2 -y=3 with no action on build and an error handler
\* on root only: the handler of root got the HelpAskedError of build.
C12_Witness ==
  /\ pc = "done" /\ argv = <<T_build, T_xEq2, T_yEq3>> /\ command = "build"
  /\ tree["build"].fn = "none" /\ tree["build"].errorFn = "none"
  /\ Len(trace) = 1 /\ trace[1].op = "errorFn" /\ trace[1].command = "root"
  /\ trace[1].errors = <<HelpAskedError("build")>>

\* ------------------------------------------------------------------------
\* parse(argv) called again on the same tree
\* ------------------------------------------------------------------------

\* The caller of parse, after the promise of one call has settled, keeps
\* what it got and calls parse(argv) on the same command once more.
ParseAgain ==
  /\ pc \in {"parsed", "done"} /\ parsed # "pending" /\ Len(calls) + 1 < MaxCalls
  /\ calls' = Append(calls, [op |-> "parse", result |-> Settled(Cur)])
  /\ pc' = "start" /\ parsed' = "pending" /\ outcome' = "pending"
  /\ UNCHANGED <<conv, tree, self, argv, map, command, found, args, opts, errors, isVersion,
                 isHelp, i, input, index, field, rejection, seen, trace>>

ParseScenarios ==
  {[tree |-> t, vocab |-> RequiredVocab] : t \in RequiredTrees}
  \cup {[tree |-> t, vocab |-> DefaultVocab] : t \in DefaultTrees}
  \cup {[tree |-> t, vocab |-> NoActionVocab] : t \in NoActionTrees}

InitParse == InitOver(ParseScenarios)

NextParse ==
  \/ ParseStart
  \/ ScanLong
  \/ ScanShort
  \/ ScanBare
  \/ ScanEnd
  \/ BindField
  \/ ParseReturn
  \/ ParseAgain

SpecParse == InitParse /\ [][NextParse]_vars

\* C13: no step of parse changes the tree (names, children, parent, input
\* schema, flags and handlers of every command), and a call of parse that
\* settles after an earlier call with the same argument vector settles as
\* that one did: the same resolved command, bound input, error list, isHelp
\* and isVersion (or the same rejection).
C13_ParseIdempotent ==
  [][/\ tree' = tree
     /\ (parsed' # "pending" /\ calls' # <<>>) =>
          Settled(Cur)' = calls'[Len(calls')].result]_vars

\* C13 witness: a second call has returned with a subcommand resolved, a
\* field bound and errors recorded, as the first call had.
C13_Witness ==
  /\ Len(calls) = 1 /\ parsed = "returned" /\ calls[1].result.parsed = "returned"
  /\ command = "build" /\ errors # <<>> /\ input # EmptyMap

\* What the middlewares from the root down to the resolved command do.
Chain == DoesOn(tree, PathTo(tree, command))

\* run went into the middleware chain: parse returned without help, version
\* and errors, and the resolved command has an action.
Dispatched ==
  /\ pc = "done" /\ parsed = "returned" /\ ~isHelp /\ ~isVersion /\ errors = <<>>
  /\ tree[command].fn # "none"

\* Some middleware of the chain calls next twice, is reached (those before it
\* call next), and nothing it awaits throws.
CallsNextTwice ==
  /\ \E k \in 1..Len(Chain) : Chain[k] = "twice" /\ \A j \in 1..(k - 1) : Chain[j] = "next"
  /\ \A k \in 1..Len(Chain) : Chain[k] # "throw"
  /\ tree[command].fn # "throw"

\* The calls of one middleware in the trace.
CallsOf(c, k) == {j \in 1..Len(trace) : trace[j].op = "middleware" /\ trace[j].command = c /\ trace[j].k = k}

\* C14: in every run the action is called at most once and every middleware
\* at most once; and when a middleware that is reached calls next twice, its
\* second call is rejected with "next() called multiple times": run hands
\* that error to the error handler, or without one rejects with it.
C14_NextTwice ==
  /\ Cardinality(Actions) <= 1
  /\ \A c \in DOMAIN tree : \A k \in 1..Len(tree[c].middlewares) : Cardinality(CallsOf(c, k)) <= 1
  /\ (Dispatched /\ CallsNextTwice) =>
       IF Handlers = {} THEN outcome = "rejected" /\ rejection = NextTwice
       ELSE \E j \in 1..Len(trace) : trace[j].op = "errorFn" /\ trace[j].errors = <<NextTwice>>

\* C14 witness: the middleware of build called next twice; the action of
\* build ran once, and run rejected with the error of the second call.
C14_Witness ==
  /\ Dispatched /\ command = "build" /\ Chain = <<"next", "next", "twice">>
  /\ Cardinality(Actions) = 1 /\ rejection = NextTwice /\ outcome = "rejected"

\* The middlewares registered on the commands of a path, as [command, k],
\* the commands in the order of the path and k in registration order.
RECURSIVE Registered(_, _)
Registered(t, path) ==
  IF path = <<>> THEN <<>>
  ELSE [k \in 1..Len(t[Head(path)].middlewares) |-> [command |-> Head(path), k |-> k]]
       \o Registered(t, Tail(path))

\* How many middlewares of the chain start: all up to the first that does
\* not call next.
Reached ==
  IF \E k \in 1..Len(Chain) : Chain[k] \in {"return", "throw"}
  THEN CHOOSE k \in 1..Len(Chain) :
         Chain[k] \in {"return", "throw"} /\ \A j \in 1..(k - 1) : Chain[j] \notin {"return", "throw"}
  ELSE Len(Chain)

IsMiddleware(e) == e.op = "middleware"

\* The middleware calls of the trace, in order, as [command, k].
Started ==
  LET es == SelectSeq(trace, IsMiddleware)
  IN [j \in 1..Len(es) |-> [command |-> es[j].command, k |-> es[j].k]]

\* C15: when run went into the middleware chain, the middlewares that
\* started are, in this order, those registered on the commands from the
\* root down to the resolved command (root first, each command's in
\* registration order) up to the first one that does not call next; the
\* action was called, after all of them, exactly when every one calls next.
\* In any run only middlewares of commands on that path are called.
C15_MiddlewareOrder ==
  /\ \A j \in 1..Len(trace) :
       trace[j].op = "middleware" =>
         \E k \in 1..Len(PathTo(tree, command)) : PathTo(tree, command)[k] = trace[j].command
  /\ Dispatched =>
       /\ Started = SubSeq(Registered(tree, PathTo(tree, command)), 1, Reached)
       /\ (Actions # {}) <=> (\A k \in 1..Len(Chain) : Chain[k] \in {"next", "twice"})
       /\ \A a \in Actions : \A j \in 1..Len(trace) : trace[j].op = "middleware" => j < a

\* C15 witness: for build the two middlewares of root ran before the one of
\* build, which returned without calling next: the action was not called.
C15_Witness ==
  /\ Dispatched /\ command = "build" /\ Chain = <<"next", "next", "return">>
  /\ Started = <<[command |-> "root", k |-> 1], [command |-> "root", k |-> 2],
                 [command |-> "build", k |-> 1]>>
  /\ Actions = {}

\* What the action or a middleware throws in a run that went into the chain:
\* the error of the first middleware reached that throws, else that of the
\* action when every middleware calls next.
ThrownInChain ==
  IF Chain # <<>> /\ Chain[Reached] = "throw" THEN ThrownError("middlewareError")
  ELSE IF (\A k \in 1..Len(Chain) : Chain[k] \in {"next", "twice"}) /\ tree[command].fn = "throw"
       THEN ThrownError("actionError")
       ELSE NoError

\* C16: when the action or a middleware throws, run hands the error chain of
\* the resolved command a list of exactly that one thrown value: the nearest
\* error handler is called last with it, or without a handler the default
\* screen throws it again and run rejects with it; the error list of the
\* parse stays empty.
C16_ThrownToErrorChain ==
  (Dispatched /\ ThrownInChain # NoError) =>
    /\ errors = <<>>
    /\ IF Handlers # {}
       THEN LET last == trace[Len(trace)]
            IN /\ last.op = "errorFn"
               /\ last.command =
                    PathTo(tree, command)[CHOOSE k \in Handlers : \A j \in Handlers : j <= k]
               /\ last.errors = <<ThrownInChain>>
               /\ Cardinality({j \in 1..Len(trace) : trace[j].op = "errorFn"}) = 1
       ELSE outcome = "rejected" /\ rejection = ThrownInChain

\* C16 witness: the action of build threw; the error handler of build got
\* the thrown value as the only error, and run resolved.
C16_Witness ==
  /\ Dispatched /\ command = "build" /\ tree["build"].fn = "throw"
  /\ tree["build"].errorFn = "ok" /\ outcome = "resolved"
  /\ trace[Len(trace)] = Event("errorFn", "build", <<ThrownError("actionError")>>, EmptyMap)

\* ------------------------------------------------------------------------
\* Building a tree: add, subCommand and alias called in any order
\* ------------------------------------------------------------------------

\* The names the commands are constructed with here: build and deploy share
\* the name b.
TreeNames ==
  [c \in DOMAIN Names |->
     IF c = "deploy" THEN <<T_deploy, T_b>> ELSE Names[c]]

\* The commands the calls are made on, and the alias lists given to alias.
Builders == {"root", "build", "deploy"}
Aliases == {<<T_x>>, <<T_app, T_7>>}

AddCall(p, c) == [op |-> "add", parent |-> p, command |-> c, aliases |-> <<>>]
SubCommandCall(p, c) == [op |-> "subCommand", parent |-> p, command |-> c, aliases |-> <<>>]
AliasCall(c, as) == [op |-> "alias", parent |-> NoCommand, command |-> c, aliases |-> as]

\* p.add(c)
AddStep ==
  /\ pc = "build" /\ Len(calls) < MaxBuild
  /\ \E p \in Builders : \E c \in Builders \ {p} :
       /\ tree' = add(tree, p, c)
       /\ calls' = Append(calls, AddCall(p, c))
  /\ UNCHANGED <<conv, self, argv, pc, outcome, rejection, trace>> /\ UNCHANGED parseVars

\* p.subCommand(names) for a command c not constructed before.
SubCommandStep ==
  /\ pc = "build" /\ Len(calls) < MaxBuild
  /\ \E p \in Builders : \E c \in Builders \ {p} :
       /\ \A j \in 1..Len(calls) : calls[j].command # c /\ calls[j].parent # c
       /\ tree' = subCommand(tree, p, c, TreeNames[c])
       /\ calls' = Append(calls, SubCommandCall(p, c))
  /\ UNCHANGED <<conv, self, argv, pc, outcome, rejection, trace>> /\ UNCHANGED parseVars

\* c.alias(...as)
AliasStep ==
  /\ pc = "build" /\ Len(calls) < MaxBuild
  /\ \E c \in Builders, as \in Aliases :
       /\ tree' = alias(tree, c, as)
       /\ calls' = Append(calls, AliasCall(c, as))
  /\ UNCHANGED <<conv, self, argv, pc, outcome, rejection, trace>> /\ UNCHANGED parseVars

\* Commands just constructed, none added to another.
InitTree ==
  /\ tree = [c \in DOMAIN Names |-> Command(TreeNames[c])]
  /\ argv = <<>> /\ self = "root" /\ pc = "build"
  /\ map = EmptyMap
  /\ command = "root" /\ found = FALSE /\ args = <<>> /\ opts = EmptyMap
  /\ errors = <<>> /\ isVersion = FALSE /\ isHelp = FALSE /\ i = 1
  /\ input = EmptyMap /\ index = 0 /\ field = 1 /\ parsed = "pending"
  /\ rejection = NoError /\ seen = <<>>
  /\ outcome = "pending" /\ trace = <<>> /\ calls = <<>> /\ conv = NoConversion

NextTree ==
  \/ AddStep
  \/ SubCommandStep
  \/ AliasStep

SpecTree == InitTree /\ [][NextTree]_vars

\* c is registered with p in tree t: p is the parent of c, and every name of
\* c is a key of the children of p whose entry is c with the first name of c.
RegisteredWith(t, p, c) ==
  /\ t[c].parent = p
  /\ \A k \in 1..Len(t[c].names) :
       /\ MapHas(t[p].children, t[c].names[k])
       /\ MapGet(t[p].children, t[c].names[k]) =
            [name |-> t[c].names[k], command |-> c, alias |-> t[c].names[1]]

\* The calls that added a command to a parent.
Adds == {j \in 1..Len(calls) : calls[j].op \in {"add", "subCommand"}}

Shares(c, d) == \E k \in 1..Len(tree[c].names) : \E j \in 1..Len(tree[d].names) :
                  tree[c].names[k] = tree[d].names[j]

\* A call that takes c from p, or gives a name of c under p to another
\* command: c added to another parent, or a command that shares a name with
\* c added (or, by alias, added again) to p.
Disturbs(call, p, c) ==
  \/ call.op \in {"add", "subCommand"} /\ call.command = c /\ call.parent # p
  \/ /\ call.command # c /\ Shares(c, call.command)
     /\ \/ call.op \in {"add", "subCommand"} /\ call.parent = p
        \/ call.op = "alias" /\ tree[call.command].parent = p

\* C17 as stated: after any calls, every command c that was added to p is
\* registered with p.
C17_Registration ==
  \A j \in Adds : RegisteredWith(tree, calls[j].parent, calls[j].command)

\* C17 amended: a call that adds c to p leaves c registered with p, and c
\* stays registered with p over every call that neither adds c to another
\* parent nor adds to p a command sharing a name with c.
C17_RegistrationKept ==
  [][\A p \in Builders : \A c \in Builders \ {p} :
       LET call == calls'[Len(calls')]
       IN /\ (call.op \in {"add", "subCommand"} /\ call.parent = p /\ call.command = c)
               => RegisteredWith(tree', p, c)
          /\ (RegisteredWith(tree, p, c) /\ ~Disturbs(call, p, c))
               => RegisteredWith(tree', p, c)]_vars

\* C17 witness: build was added to root and then deploy to build: both are
\* registered, b being a key of root for build with the first name build.
C17_Witness ==
  /\ calls = <<AddCall("root", "build"), AddCall("build", "deploy")>>
  /\ RegisteredWith(tree, "root", "build") /\ RegisteredWith(tree, "build", "deploy")
  /\ MapGet(tree["root"].children, T_b).alias = T_build

\* C18: after alias(a1, ..., an) on a command that has a parent, every ai is
\* a name of the command and a key of the parent's children for the
\* command, and a bare token ai descends into it.
C18_AliasRegisters ==
  (calls # <<>> /\ calls[Len(calls)].op = "alias"
   /\ tree[calls[Len(calls)].command].parent # NoCommand) =>
    LET c == calls[Len(calls)].command
        as == calls[Len(calls)].aliases
        p == tree[c].parent
    IN \A k \in 1..Len(as) :
         /\ \E j \in 1..Len(tree[c].names) : tree[c].names[j] = as[k]
         /\ MapHas(tree[p].children, as[k])
         /\ Descends(tree, Locals(<<as[k]>>, p), as[k])

\* ------------------------------------------------------------------------
\* The error list of a settled parse
\* ------------------------------------------------------------------------

\* The UnknownOptionErrors of the option tokens from the k-th on, in scan
\* order, when no command allows unknown options: type and key.
RECURSIVE UnknownFrom(_)
UnknownFrom(k) ==
  IF k > Len(argv) THEN <<>>
  ELSE (IF k \in OptionTokens
        THEN LET us == UnknownErrors(NoCommand, KeysOf(argv[k]))
             IN [j \in 1..Len(us) |-> [type |-> us[j].type, key |-> us[j].key]]
        ELSE <<>>) \o UnknownFrom(k + 1)

\* The missing-required errors of the fields of the resolved command from the
\* k-th on, in declaration order: one for each required field without
\* default and without input.
RECURSIVE MissingFrom(_)
MissingFrom(k) ==
  LET schema == tree[command].input
  IN IF k > Len(schema) THEN <<>>
     ELSE (IF schema[k].required /\ schema[k].default.t = "undefined" /\ NoInput(k)
           THEN <<MissingError(schema[k])>> ELSE <<>>) \o MissingFrom(k + 1)

\* Positional tokens remain that no field of the resolved command claims.
Unclaimed ==
  LET ps == {k \in 1..Len(tree[command].input) : tree[command].input[k].isPositional}
  IN /\ \A k \in ps : ~tree[command].input[k].list
     /\ Len(args) > Cardinality(ps)

TooManyPart ==
  IF Unclaimed /\ ~tree[command].allowSurpassArgLimit
  THEN <<TooManyArgumentsError(command)>> ELSE <<>>

IsUnknownOptionError(e) == e.type = "UnknownOptionError"

Strict == \A c \in DOMAIN tree : ~tree[c].allowUnknownOptions

\* C19: parse never rejects, and when it has settled its error list is the
\* UnknownOptionErrors (when no command allows unknown options: one for each
\* unknown key of the option tokens, in scan order), then one
\* missing-required error for each missing field in declaration order, then
\* one TooManyArgumentsError exactly when positional tokens remain unclaimed
\* and allowSurpassArgLimit is false.
C19_ErrorsAccumulated ==
  parsed # "pending" =>
    /\ parsed = "returned"
    /\ LET nU == Cardinality({k \in 1..Len(errors) : IsUnknownOptionError(errors[k])})
           head == SubSeq(errors, 1, nU)
       IN /\ \A k \in 1..nU : IsUnknownOptionError(head[k])
          /\ Strict => [k \in 1..nU |-> [type |-> head[k].type, key |-> head[k].key]]
                         = UnknownFrom(1)
          /\ SubSeq(errors, nU + 1, Len(errors)) = MissingFrom(1) \o TooManyPart

\* ------------------------------------------------------------------------
\* Conversion failures
\* ------------------------------------------------------------------------

\* The conversion of the raw text found for the k-th field of the resolved
\* command fails: the text of a number or bigint field is not numeric.
ConversionFails(k) ==
  LET schema == tree[command].input
      e == schema[k]
      rv == RawValue(e, args, opts, StartOf(schema, k, args))
      val == convert(e.kind, e.list, rv.raw)
  IN /\ rv.has /\ e.kind \in {"number", "bigint"}
     /\ \/ val.t \in {"NaN", "throw"}
        \/ val.t = "list" /\ \E j \in 1..Len(val.v) : val.v[j].t = "NaN"

HoldsNaN(val) ==
  \/ val.t = "NaN"
  \/ val.t = "list" /\ \E j \in 1..Len(val.v) : val.v[j].t = "NaN"

\* C20: parse never rejects; when it has settled, no field is bound to NaN,
\* every field has been bound or checked, and each field whose conversion
\* fails has a ConversionError in the error list.
C20_ConversionReported ==
  parsed # "pending" =>
    /\ parsed = "returned"
    /\ field = Len(tree[command].input) + 1
    /\ \A key \in DOMAIN input : ~HoldsNaN(input[key])
    /\ \A k \in 1..Len(tree[command].input) :
         ConversionFails(k) =>
           \E j \in 1..Len(errors) :
             errors[j].type = "ConversionError" /\ errors[j].key = tree[command].input[k].key

\* ------------------------------------------------------------------------
\* Short clusters
\* ------------------------------------------------------------------------

\* The scan is about to read a token starting with one "-".
AtShortToken == pc = "scan" /\ i <= Len(argv) /\ IsShort(argv[i])

\* The places in a cluster of the declared flags that are not boolean.
ValueTakers(chars) ==
  {k \in 1..Len(chars) : <<chars[k]>> \in DOMAIN map /\ map[<<chars[k]>>].kind # "boolean"}

Least(S) == CHOOSE k \in S : \A j \in S : k <= j

\* C21: the step that reads a cluster -c1..cn[=v] moves the cursor over at
\* most one more token; the first declared non-boolean flag of the cluster
\* is given v when there is one and else the next token, and no other
\* non-boolean flag of the cluster is given anything.
C21_ClusterValue ==
  [][AtShortToken =>
       LET kv == SplitKeyValue(Slice(argv[i], 1))
           takers == ValueTakers(kv.key)
       IN /\ i' <= i + 2
          /\ takers # {} =>
               LET first == <<kv.key[Least(takers)]>>
                   value == IF kv.value # Undef THEN kv.value ELSE At(argv, i + 1)
               IN /\ value # Undef => (first \in DOMAIN opts' /\ opts'[first] = value)
                  /\ \A k \in takers :
                       <<kv.key[k]>> # first =>
                         /\ (<<kv.key[k]>> \in DOMAIN opts') = (<<kv.key[k]>> \in DOMAIN opts)
                         /\ <<kv.key[k]>> \in DOMAIN opts =>
                              opts'[<<kv.key[k]>>] = opts[<<kv.key[k]>>]]_vars

\* ------------------------------------------------------------------------
\* The merged lookup table
\* ------------------------------------------------------------------------

\* The options the ancestors of c declare, by name, a nearer ancestor before
\* a farther one.
RECURSIVE AncestorsMap(_, _)
AncestorsMap(t, c) ==
  IF t[c].parent = NoCommand THEN EmptyMap
  ELSE Override(AncestorsMap(t, t[c].parent), OwnMap(t[t[c].parent].input, 1))

\* C22: once built, the lookup table of the parsing command gives, for a
\* name the command declares itself, the command's own entry, and for a
\* name only an ancestor declares, the ancestor's entry; a descendant's
\* entry is used for no such name.
C22_MapPrecedence ==
  pc # "start" =>
    LET own == OwnMap(tree[self].input, 1)
        up == AncestorsMap(tree, self)
    IN \A n \in DOMAIN map :
         /\ n \in DOMAIN own => map[n] = own[n]
         /\ (n \notin DOMAIN own /\ n \in DOMAIN up) => map[n] = up[n]

\* ------------------------------------------------------------------------
\* Several occurrences and several names of one option
\* ------------------------------------------------------------------------

\* The option tokens that name n and nothing else.
Occurrences(n) == {k \in OptionTokens : KeysOf(argv[k]) = <<n>>}

\* Some cluster of several flags names n.
Clustered(n) ==
  \E k \in OptionTokens :
    Len(KeysOf(argv[k])) > 1 /\ \E j \in 1..Len(KeysOf(argv[k])) : KeysOf(argv[k])[j] = n

\* The value the option token at k gives: the text after "=", else the next
\* token when the scan took it as the value, else none.
ValueAt(k) ==
  LET kv == SplitKeyValue(Slice(argv[k], IF IsLong(argv[k]) THEN 2 ELSE 1))
  IN IF kv.value # Undef THEN kv.value
     ELSE IF k + 1 <= Len(argv) /\ seen[k + 1] = "value" THEN argv[k + 1]
     ELSE Undef

\* The occurrences of n that give a value.
Valued(n) == {k \in Occurrences(n) : ValueAt(k) # Undef}

Greatest(S) == CHOOSE k \in S : \A j \in S : j <= k

\* C23: when parse returns, for every non-boolean option of the resolved
\* command (named by no cluster of several flags), each name given with a
\* value holds the value of its last occurrence, and the option is bound to
\* the conversion of the value held by the first of its declared names that
\* was given one, wherever the tokens stand in argv.
C23_AliasDisambiguation ==
  parsed = "returned" =>
    \A f \in 1..Len(tree[command].input) :
      LET e == tree[command].input[f]
          named == {j \in 1..Len(e.names) : Valued(e.names[j]) # {}}
      IN (/\ ~e.isPositional /\ e.kind # "boolean"
          /\ \A j \in 1..Len(e.names) :
               ~Clustered(e.names[j]) /\ e.names[j] \in DOMAIN map /\ map[e.names[j]] = e) =>
           /\ \A j \in named :
                /\ e.names[j] \in DOMAIN opts
                /\ opts[e.names[j]] = ValueAt(Greatest(Valued(e.names[j])))
           /\ named # {} =>
                LET raw == ValueAt(Greatest(Valued(e.names[Least(named)])))
                IN /\ e.key \in DOMAIN input
                   /\ input[e.key] = convert(e.kind, e.list,
                                             IF e.list THEN Split(raw, SeparatorOf(e)) ELSE raw)

\* C23 witness: -n 1,2,3 stands before --numbers=4;5, and the list option
\* declared as --numbers, -n is bound to the pieces of 4;5.
C23_Witness ==
  /\ parsed = "returned" /\ argv = <<T_n, T_1c2c3, T_numbersEq>>
  /\ tree["root"].input[1].kind = "string" /\ tree["root"].input[1].separator = <<";">>
  /\ opts[<<"n">>] = T_1c2c3
  /\ input[<<"n", "s">>] = List(<<Str(<<"4">>), Str(<<"5">>)>>)

\* ------------------------------------------------------------------------
\* convert(kind, value) on a list, the kind being a validator
\* ------------------------------------------------------------------------

\* The raw texts of the lists.
RawTexts == {T_1, T_x, T_app}

\* kind["~standard"].validate(value) for a validator of digit strings: the
\* value, or one issue whose message is the text.
Validate(val) ==
  IF val # <<>> /\ DigitPrefix(val) = val
  THEN [issues |-> <<>>, value |-> Num(DigitsToNat(val, 0))]
  ELSE [issues |-> <<val>>, value |-> NaN]

InputValidationError(msgs) ==
  [type |-> "InputValidationError", command |-> NoCommand, key |-> <<>>, messages |-> msgs]

\* What the promise of convertOne(val) settles with: the value, or the
\* InputValidationError thrown for the issues.
Validated(val) ==
  IF Validate(val).issues # <<>> THEN Thrown(InputValidationError(Validate(val).issues))
  ELSE Validate(val).value

Pending == [t |-> "undefined", v |-> 0]

\* value.map((v) => convertOne(v)) starts every validator, in list order, and
\* Promise.all waits; an empty list is fulfilled at once.
ConvertList ==
  /\ pc = "convert"
  /\ pc' = "awaiting"
  /\ conv' = [conv EXCEPT !.result = IF conv.raw = <<>> THEN List(<<>>) ELSE Pending]
  /\ UNCHANGED <<calls, tree, self, argv, outcome, rejection, trace>> /\ UNCHANGED parseVars

\* The promise of one element settles, in whatever order the validators
\* finish: Promise.all rejects with the first rejection it sees, and is
\* fulfilled with the values in list order when the last promise is.
ValidatorSettles ==
  /\ pc = "awaiting"
  /\ \E k \in 1..Len(conv.raw) :
       /\ \A j \in 1..Len(conv.settled) : conv.settled[j] # k
       /\ LET out == Validated(conv.raw[k])
              all == Len(conv.settled) + 1 = Len(conv.raw)
          IN conv' = [conv EXCEPT
                        !.settled = Append(conv.settled, k),
                        !.result = IF conv.result # Pending THEN conv.result
                                   ELSE IF out.t = "throw" THEN out
                                   ELSE IF all
                                   THEN List([j \in 1..Len(conv.raw) |-> Validated(conv.raw[j])])
                                   ELSE Pending]
  /\ UNCHANGED <<calls, tree, self, argv, pc, outcome, rejection, trace>>
  /\ UNCHANGED parseVars

\* await convert(...) resumes with the settled result.
ConvertReturns ==
  /\ pc = "awaiting" /\ conv.result # Pending
  /\ pc' = "converted"
  /\ UNCHANGED <<conv, calls, tree, self, argv, outcome, rejection, trace>>
  /\ UNCHANGED parseVars

InitConvert ==
  /\ tree = Bare /\ self = "root" /\ argv = <<>>
  /\ pc = "convert"
  /\ map = EmptyMap
  /\ command = "root" /\ found = FALSE /\ args = <<>> /\ opts = EmptyMap
  /\ errors = <<>> /\ isVersion = FALSE /\ isHelp = FALSE /\ i = 1
  /\ input = EmptyMap /\ index = 0 /\ field = 1 /\ parsed = "pending"
  /\ rejection = NoError /\ seen = <<>>
  /\ outcome = "pending" /\ trace = <<>> /\ calls = <<>>
  /\ \E raw \in UNION {[1..n -> RawTexts] : n \in 0..MaxList} :
       conv = [NoConversion EXCEPT !.raw = raw]

NextConvert ==
  \/ ConvertList
  \/ ValidatorSettles
  \/ ConvertReturns

SpecConvert == InitConvert /\ [][NextConvert]_vars

\* C24: when the conversion of a list has settled, it has failed with the
\* error of the first failing element of the list if some element fails,
\* and else it holds the converted elements in the order of the list.
C24_ListConversion ==
  pc = "converted" =>
    LET outs == [k \in 1..Len(conv.raw) |-> Validated(conv.raw[k])]
    IN IF FirstThrown(outs) # 0 THEN conv.result = outs[FirstThrown(outs)]
       ELSE conv.result = List(outs)

\* ------------------------------------------------------------------------
\* An option that takes the next token
\* ------------------------------------------------------------------------

\* The scan is about to read a token that names one declared non-boolean
\* option and has no "=".
AtValueOption ==
  /\ AtOptionToken
  /\ Len(KeysOf(argv[i])) = 1
  /\ KeysOf(argv[i])[1] \in DOMAIN map
  /\ map[KeysOf(argv[i])[1]].kind # "boolean"
  /\ \A k \in 1..Len(argv[i]) : argv[i][k] # "="

\* The binding loop is about to bind an option no name of which is in opts.
AtOptionWithoutInput ==
  /\ pc = "bind" /\ field <= Len(tree[command].input)
  /\ ~tree[command].input[field].isPositional
  /\ NamesOf(tree[command].input[field]) \cap DOMAIN opts = {}

\* C25: the step that reads a declared non-boolean option without "=value"
\* binds the next token, whatever it is, as the value of the name and moves
\* past it, leaving the resolved command, the positionals and the errors as
\* they are; without a next token it binds nothing.  An option left without
\* input is then given its default, or a missing-required error when it is
\* required and has none, and parse does not reject.
C25_NextTokenVerbatim ==
  [][/\ AtValueOption =>
          IF i + 1 <= Len(argv)
          THEN /\ opts' = Put(opts, KeysOf(argv[i])[1], argv[i + 1])
               /\ i' = i + 2 /\ seen'[i + 1] = "value"
               /\ command' = command /\ args' = args /\ errors' = errors
          ELSE /\ opts' = opts /\ i' > Len(argv) /\ errors' = errors
               /\ parsed' = "pending"
     /\ AtOptionWithoutInput =>
          LET e == tree[command].input[field]
          IN /\ parsed' = "pending"
             /\ IF e.default.t # "undefined"
                THEN input' = Put(input, e.key, e.default) /\ errors' = errors
                ELSE /\ input' = input
                     /\ errors' = IF e.required
                                  THEN Append(errors, MissingRequiredOptionError(command, e.key))
                                  ELSE errors]_vars

\* C25 witness: --out takes the name of the child build as its value, and
\* root stays the resolved command.
C25_Witness ==
  /\ parsed = "returned" /\ argv = <<T_out, T_build>>
  /\ command = "root" /\ args = <<>>
  /\ opts = (<<"o", "u", "t">> :> T_build) /\ seen[2] = "value"

\* ------------------------------------------------------------------------
\* Missing-required errors, field by field
\* ------------------------------------------------------------------------

\* The places of the error list that hold a missing-required error for key.
MissingFor(key) ==
  {k \in 1..Len(errors) :
     /\ errors[k].type \in {"MissingRequiredOptionError", "MissingRequiredArgumentError"}
     /\ errors[k].key = key}

\* C26: when parse returns, the error list holds at most one
\* missing-required error for each field of the resolved command, and
\* exactly one for a required field without default and without input.
C26_OneMissingPerField ==
  parsed = "returned" =>
    \A f \in 1..Len(tree[command].input) :
      LET e == tree[command].input[f]
      IN /\ Cardinality(MissingFor(e.key)) <= 1
         /\ (e.required /\ e.default.t = "undefined" /\ NoInput(f)) =>
              Cardinality(MissingFor(e.key)) = 1

\* ------------------------------------------------------------------------
\* run and the error chain
\* ------------------------------------------------------------------------

\* The places of the history where the error chain was entered: a custom
\* error handler was called, or the default error screen showed the help.
ChainEntries == {k \in 1..Len(trace) : trace[k].op \in {"errorFn", "helpScreen"}}

\* C28: in one call of run the error chain is entered at most once.
C28_ChainOnce == Cardinality(ChainEntries) <= 1

\* C29: when run has settled, nothing it started was left behind: no
\* rejection of an error handler, middleware or action is unhandled.
C29_RunAwaitsAll ==
  pc = "done" => \A k \in 1..Len(trace) : trace[k].op # "unhandled"

\* What escapes the middleware chain of a run that went into it: what a
\* middleware or the action throws, else the error of a second next().
ChainThrows ==
  IF ThrownInChain # NoError THEN ThrownInChain
  ELSE IF CallsNextTwice THEN NextTwice ELSE NoError

IsScreenOutput(e) == e.op \in {"print", "helpScreen"}

\* C30: when run is done, neither help nor version was asked and no command
\* from the resolved one upwards has an error handler: what the action or a
\* middleware threw rejects run, as the same error, and nothing is printed
\* and no help screen shown; parse errors are printed one by one, and for
\* them as for a command without an action the help screen of the resolved
\* command follows and run resolves.
C30_DefaultScreenRethrows ==
  (pc = "done" /\ parsed = "returned" /\ ~isHelp /\ ~isVersion /\ Handlers = {}) =>
    IF errors = <<>> /\ tree[command].fn # "none"
    THEN /\ SelectSeq(trace, IsScreenOutput) = <<>>
         /\ IF ChainThrows # NoError
            THEN outcome = "rejected" /\ rejection = ChainThrows
            ELSE outcome = "resolved"
    ELSE /\ outcome = "resolved"
         /\ trace = [k \in 1..Len(errors) |-> Event("print", command, <<errors[k]>>, EmptyMap)]
                    \o <<Event("helpScreen", command, <<>>, EmptyMap)>>

\* C30 witness: without any error handler the second middleware of root
\* threw, and run rejected with what it threw.
C30_Witness ==
  /\ pc = "done" /\ parsed = "returned" /\ command = "root" /\ Handlers = {}
  /\ Chain = <<"next", "throw">> /\ errors = <<>>
  /\ outcome = "rejected" /\ rejection = ThrownError("middlewareError")

\* ------------------------------------------------------------------------
\* Unknown options before and after a subcommand name
\* ------------------------------------------------------------------------

\* The command resolved by the tokens before the k-th: the walk from the
\* parsing command through the tokens the scan took as command names.
RECURSIVE CommandAt(_, _, _)
CommandAt(c, j, k) ==
  IF j >= k THEN c
  ELSE CommandAt(IF seen[j] = "command" THEN MapGet(tree[c].children, argv[j]).command ELSE c,
                 j + 1, k)

\* The UnknownOptionErrors of the option tokens from the k-th on, each raised
\* for the command resolved when the token is read, unless that command
\* allows unknown options.
RECURSIVE UnknownAtScan(_)
UnknownAtScan(k) ==
  IF k > Len(argv) THEN <<>>
  ELSE (IF k \in OptionTokens /\ ~tree[CommandAt(self, 1, k)].allowUnknownOptions
        THEN UnknownErrors(CommandAt(self, 1, k), KeysOf(argv[k])) ELSE <<>>)
       \o UnknownAtScan(k + 1)

\* C27 as stated: when parse returns for an undeclared option token followed
\* by the name of a child that allows unknown options, the parsing command
\* not allowing them, its error list is that of parse on the two tokens in
\* the other order.
C27_PositionIndependent ==
  (/\ parsed = "returned" /\ Len(argv) = 2
   /\ ~tree[self].allowUnknownOptions /\ tree[command].allowUnknownOptions
   /\ ~IsBare(argv[1]) /\ \A k \in 1..Len(KeysOf(argv[1])) : Unknown(KeysOf(argv[1])[k])
   /\ seen[2] = "command") =>
    errors = parse(tree, self, <<argv[2], argv[1]>>).errors

\* C27 amended: when parse returns, the UnknownOptionErrors of its error
\* list are those of the undeclared keys in scan order, each decided by the
\* allowUnknownOptions flag of the command resolved when its token is read.
C27_DecidedAtScan ==
  parsed = "returned" => SelectSeq(errors, IsUnknownOptionError) = UnknownAtScan(1)

\* C27 witness: root does not allow unknown options and build does: --bogus
\* before build is an error of root, and parse resolves to build.
C27_Witness ==
  /\ parsed = "returned" /\ argv = <<T_bogus, T_build>>
  /\ ~tree["root"].allowUnknownOptions /\ tree["build"].allowUnknownOptions
  /\ command = "build"
  /\ errors = <<UnknownOptionError("root", <<"b", "o", "g", "u", "s">>)>>
  /\ parse(tree, self, <<T_build, T_bogus>>).errors = <<>>

====
